---------------------------- MODULE Spec2Model ----------------------------
(***************************************************************************)
(* Shared whiteboard: the authoritative server (server.js) and the         *)
(* Whiteboard client (src/components/Whiteboard.jsx).                      *)
(*                                                                         *)
(* Encoding of JavaScript values.                                          *)
(*   object     a record whose DOMAIN is the set of its defined            *)
(*              properties; a property that is undefined is absent         *)
(*   array      a sequence                                                 *)
(*   number     an integer; string: a string                               *)
(*   a value that is no object where the code reads properties of it:      *)
(*              JSNull (null or undefined) or JSNumber (a primitive)       *)
(*   a value that is no array where the code expects one:                  *)
(*              NonArrayTruthy (a number such as 5, an object) or          *)
(*              NonArrayFalsy (null, 0, the empty string)                  *)
(***************************************************************************)
EXTENDS Integers, Sequences, FiniteSets, TLC

VARIABLES
    currentPages,   \* server.js: let currentPages
    serverUp,       \* the server process is running
    connected,      \* the clients whose socket is connected
    clock,          \* Date.now(), shared wall clock
    c2s,            \* c2s[c]: messages emitted by client c, not yet handled
    s2c,            \* s2c[c]: messages sent to client c, not yet handled
    pages,          \* Whiteboard.jsx: pages state of each client
    currentPage,    \* Whiteboard.jsx: currentPage state of each client
    tool,           \* Whiteboard.jsx: tool state of each client
    isDrawingRef,   \* Whiteboard.jsx: isDrawingRef.current of each client
    startPos,       \* Whiteboard.jsx: startPos state of each client
    selectedId,     \* Whiteboard.jsx: selectedId state of each client
    upload,         \* Whiteboard.jsx: the image upload of each client that
                    \* waits for its reader.onload or imageObj.onload
    log,            \* history: the documents committed, and those each client
                    \* received since it connected
    ev,             \* history: the step taken last
    inputs,         \* number of user inputs so far
    emits           \* number of messages emitted by other programs so far

server == <<currentPages, serverUp>>
gesture == <<currentPage, tool, isDrawingRef, startPos, selectedId>>
client == <<pages, gesture, upload>>
counters == <<inputs, emits>>
vars == <<server, connected, clock, c2s, s2c, client, log, ev, counters>>

Clients == {"A", "B"}

\* Bounds of the model.
MaxInputs == 3
MaxEmits == 2
MaxSyncInputs == 2
MaxClock == 1

----------------------------------------------------------------------------
(* JavaScript values *)

JSNull == [js |-> "null"]
JSNumber == [js |-> "number"]
NonArrayTruthy == <<[js |-> "nonarray", truthy |-> TRUE]>>
NonArrayFalsy == <<[js |-> "nonarray", truthy |-> FALSE]>>

\* typeof v === 'object' && v !== null, for a value at an object position
IsObject(v) == "js" \notin DOMAIN v

\* Array.isArray(v), for a value at an array position
IsArray(v) == ~(Len(v) = 1 /\ "js" \in DOMAIN v[1] /\ v[1].js = "nonarray")

\* the truth value JavaScript gives a value at an array position
Truthy(v) == IsArray(v) \/ v = NonArrayTruthy

\* obj.f, defined
Has(obj, f) == IsObject(obj) /\ f \in DOMAIN obj

\* { ...obj, f: v }
With(obj, f, v) ==
    [g \in (IF IsObject(obj) THEN DOMAIN obj ELSE {}) \cup {f} |->
        IF g = f THEN v ELSE obj[g]]

\* arr[arr.length - 1]
Last(seq) == seq[Len(seq)]

\* obj without property f
Without(obj, f) == [g \in DOMAIN obj \ {f} |-> obj[g]]

----------------------------------------------------------------------------
(* server.js *)

DefaultX == 0
DefaultY == 0
DefaultWidth == 10
DefaultHeight == 10
DefaultStrokeWidth == 5

\* Date.now().toString() at time t
DateNowId(t) == ToString(t)

\* if (!shape.id): undefined and the empty string are falsy
IdMissing(shape) == ~Has(shape, "id") \/ shape.id = ""

\* !shape.points: undefined, null, 0 and the empty string are falsy
PointsMissing(shape) == ~Has(shape, "points") \/ ~Truthy(shape.points)

\* Variant of NormalizeShape that gives every shape a new id.
NormalizeShapeNewId(shape, t) ==
    LET s1 == With(shape, "id", DateNowId(t))
        s2 == IF Has(s1, "type") /\ s1.type = "line" /\ PointsMissing(s1)
              THEN With(s1, "points", <<>>) ELSE s1
        s3 == IF ~Has(s2, "x") THEN With(s2, "x", DefaultX) ELSE s2
        s4 == IF ~Has(s3, "y") THEN With(s3, "y", DefaultY) ELSE s3
        s5 == IF ~Has(s4, "width") THEN With(s4, "width", DefaultWidth) ELSE s4
        s6 == IF ~Has(s5, "height") THEN With(s5, "height", DefaultHeight) ELSE s5
    IN  IF ~Has(s6, "strokeWidth")
        THEN With(s6, "strokeWidth", DefaultStrokeWidth) ELSE s6

\* Variant of NormalizeShape without the line that fills height.
NormalizeShapeNoHeight(shape, t) ==
    LET s1 == IF IdMissing(shape) THEN With(shape, "id", DateNowId(t)) ELSE shape
        s2 == IF Has(s1, "type") /\ s1.type = "line" /\ PointsMissing(s1)
              THEN With(s1, "points", <<>>) ELSE s1
        s3 == IF ~Has(s2, "x") THEN With(s2, "x", DefaultX) ELSE s2
        s4 == IF ~Has(s3, "y") THEN With(s3, "y", DefaultY) ELSE s3
        s5 == IF ~Has(s4, "width") THEN With(s4, "width", DefaultWidth) ELSE s4
    IN  IF ~Has(s5, "strokeWidth")
        THEN With(s5, "strokeWidth", DefaultStrokeWidth) ELSE s5

\* The shape callback of processedPages, for a shape that is an object.
NormalizeShape(shape, t) ==
    LET s1 == IF IdMissing(shape) THEN With(shape, "id", DateNowId(t)) ELSE shape
        s2 == IF Has(s1, "type") /\ s1.type = "line" /\ PointsMissing(s1)
              THEN With(s1, "points", <<>>) ELSE s1
        s3 == IF ~Has(s2, "x") THEN With(s2, "x", DefaultX) ELSE s2
        s4 == IF ~Has(s3, "y") THEN With(s3, "y", DefaultY) ELSE s3
        s5 == IF ~Has(s4, "width") THEN With(s4, "width", DefaultWidth) ELSE s4
        s6 == IF ~Has(s5, "height") THEN With(s5, "height", DefaultHeight) ELSE s5
    IN  IF ~Has(s6, "strokeWidth")
        THEN With(s6, "strokeWidth", DefaultStrokeWidth) ELSE s6

\* The shape callback for any array entry. A primitive has no properties and
\* the assignments to it are ignored (server.js is not in strict mode).
ProcessShape(shape, t) ==
    IF IsObject(shape) THEN NormalizeShape(shape, t) ELSE shape

\* Array.isArray(page.shapes)
ShapesIsArray(page) == Has(page, "shapes") /\ IsArray(page.shapes)

\* The page callback of processedPages: { ...page, shapes: ... }
ProcessPage(page, t) ==
    With(page, "shapes",
         IF ShapesIsArray(page)
         THEN [i \in DOMAIN page.shapes |-> ProcessShape(page.shapes[i], t)]
         ELSE <<>>)

\* const processedPages = data.pages.map(...)
processedPages(data, t) ==
    [i \in DOMAIN data.pages |-> ProcessPage(data.pages[i], t)]

\* if (data.pages)
HasPages(data) == Has(data, "pages") /\ Truthy(data.pages)

\* Reading a property of null or undefined raises a TypeError.
ShapeThrows(shape) == shape = JSNull
PageThrows(page) ==
    \/ page = JSNull
    \/ /\ ShapesIsArray(page)
       /\ \E i \in DOMAIN page.shapes : ShapeThrows(page.shapes[i])

\* The draw-update handler raises: data.pages of null, data.pages.map of a
\* value that is no array, page.shapes of null, shape.id of null.
DrawUpdateThrows(data) ==
    \/ data = JSNull
    \/ /\ HasPages(data)
       /\ \/ ~IsArray(data.pages)
          \/ \E i \in DOMAIN data.pages : PageThrows(data.pages[i])

\* The add-page handler raises: data.pages of null.
AddPageThrows(data) == data = JSNull

Msg(name, data) == [name |-> name, data |-> data]

\* Variant of Broadcast that puts the message before those already queued.
BroadcastFirst(doc) ==
    [d \in Clients |->
        IF d \in connected
        THEN <<Msg("draw-update", [pages |-> doc])>> \o s2c[d]
        ELSE s2c[d]]

\* io.emit('draw-update', { pages: doc }): to every connected socket
Broadcast(doc) ==
    [d \in Clients |->
        IF d \in connected
        THEN Append(s2c[d], Msg("draw-update", [pages |-> doc]))
        ELSE s2c[d]]

\* The history is kept only where log.on says so.
LogCommit(socket, doc) ==
    IF log.on
    THEN [log EXCEPT !.commits = Append(@, doc), !.by = Append(@, socket)]
    ELSE log
LogReceived(c, doc) ==
    IF log.on THEN [log EXCEPT !.received[c] = Append(@, doc)] ELSE log

NoData == [none |-> TRUE]
Event(op, c, data) == [op |-> op, client |-> c, data |-> data]

LogInput(e) ==
    IF log.on THEN [log EXCEPT !.events = Append(@, e)] ELSE log

\* An uncaught exception in a listener ends the process.
Crash ==
    /\ serverUp' = FALSE
    /\ UNCHANGED <<currentPages, s2c, log>>

\* Variant of Commit that keeps the pages of the document it replaces.
CommitMerged(socket, doc) ==
    /\ currentPages' = currentPages \o doc
    /\ s2c' = Broadcast(currentPages')
    /\ log' = LogCommit(socket, currentPages')
    /\ UNCHANGED serverUp

\* currentPages = doc; io.emit('draw-update', { pages: currentPages })
Commit(socket, doc) ==
    /\ currentPages' = doc
    /\ s2c' = Broadcast(doc)
    /\ log' = LogCommit(socket, doc)
    /\ UNCHANGED serverUp

\* Variant of OnDrawUpdate that uses socket.broadcast.emit: the sender's socket
\* is left out.
OnDrawUpdateToOthers(socket, data) ==
    IF DrawUpdateThrows(data) THEN Crash
    ELSE IF HasPages(data)
         THEN /\ currentPages' = processedPages(data, clock)
              /\ s2c' = [d \in Clients |->
                           IF d = socket THEN s2c[d] ELSE Broadcast(currentPages')[d]]
              /\ log' = LogCommit(socket, currentPages')
              /\ UNCHANGED serverUp
         ELSE UNCHANGED <<currentPages, s2c, log, serverUp>>

\* Variant of OnDrawUpdate that answers a message without pages with the
\* snapshot.
OnDrawUpdateAnswering(socket, data) ==
    IF DrawUpdateThrows(data) THEN Crash
    ELSE IF HasPages(data)
         THEN Commit(socket, processedPages(data, clock))
         ELSE Commit(socket, currentPages)

\* socket.on('draw-update', (data) => ...)
OnDrawUpdate(socket, data) ==
    IF DrawUpdateThrows(data) THEN Crash
    ELSE IF HasPages(data)
         THEN Commit(socket, processedPages(data, clock))
         ELSE UNCHANGED <<currentPages, s2c, log, serverUp>>

\* Variant of OnAddPage that broadcasts under the name of the message it got.
OnAddPageEchoing(socket, data) ==
    IF AddPageThrows(data) THEN Crash
    ELSE IF HasPages(data)
         THEN /\ currentPages' = data.pages
              /\ s2c' = [d \in Clients |->
                           IF d \in connected
                           THEN Append(s2c[d], Msg("add-page", [pages |-> data.pages]))
                           ELSE s2c[d]]
              /\ log' = LogCommit(socket, data.pages)
              /\ UNCHANGED serverUp
         ELSE UNCHANGED <<currentPages, s2c, log, serverUp>>

\* socket.on('add-page', (data) => ...)
OnAddPage(socket, data) ==
    IF AddPageThrows(data) THEN Crash
    ELSE IF HasPages(data)
         THEN Commit(socket, data.pages)
         ELSE UNCHANGED <<currentPages, s2c, log, serverUp>>

\* The server takes the next message of client c's socket and runs its listener
\* to completion.
ServerReceive(c) ==
    /\ serverUp
    /\ c \in connected
    /\ c2s[c] # <<>>
    /\ c2s' = [c2s EXCEPT ![c] = Tail(@)]
    /\ LET m == Head(c2s[c])
       IN  /\ \/ m.name = "draw-update" /\ OnDrawUpdate(c, m.data)
              \/ m.name = "add-page" /\ OnAddPage(c, m.data)
           /\ ev' = Event(m.name, c, m.data)
    /\ UNCHANGED <<connected, clock, client, counters>>

\* Variant of Connect that uses io.emit: every socket gets the snapshot.
ConnectToAll(c) ==
    /\ serverUp
    /\ c \notin connected
    /\ connected' = connected \cup {c}
    /\ s2c' = [d \in Clients |->
                 IF d \in connected'
                 THEN Append(s2c[d], Msg("draw-update", [pages |-> currentPages]))
                 ELSE s2c[d]]
    /\ ev' = Event("connection", c, NoData)
    /\ UNCHANGED <<server, clock, c2s, client, log, counters>>

\* io.on('connection'): socket.emit('draw-update', { pages: currentPages })
Connect(c) ==
    /\ serverUp
    /\ c \notin connected
    /\ connected' = connected \cup {c}
    /\ s2c' = [s2c EXCEPT ![c] = <<Msg("draw-update", [pages |-> currentPages])>>]
    /\ ev' = Event("connection", c, NoData)
    /\ UNCHANGED <<server, clock, c2s, client, log, counters>>

\* Variant of Disconnect that clears the Document Store when the last client
\* leaves.
DisconnectCleaning(c) ==
    /\ c \in connected
    /\ connected' = connected \ {c}
    /\ c2s' = [c2s EXCEPT ![c] = <<>>]
    /\ s2c' = [s2c EXCEPT ![c] = <<>>]
    /\ log' = [log EXCEPT !.received[c] = <<>>]
    /\ ev' = Event("disconnect", c, NoData)
    /\ currentPages' = IF connected' = {} THEN <<>> ELSE currentPages
    /\ UNCHANGED <<serverUp, clock, client, counters>>

\* socket.on('disconnect'): what was in flight on the socket is lost
Disconnect(c) ==
    /\ c \in connected
    /\ connected' = connected \ {c}
    /\ c2s' = [c2s EXCEPT ![c] = <<>>]
    /\ s2c' = [s2c EXCEPT ![c] = <<>>]
    /\ log' = [log EXCEPT !.received[c] = <<>>]
    /\ ev' = Event("disconnect", c, NoData)
    /\ UNCHANGED <<server, clock, client, counters>>

\* Time passes.
Tick ==
    /\ clock < MaxClock
    /\ clock' = clock + 1
    /\ ev' = Event("tick", "", NoData)
    /\ UNCHANGED <<server, connected, c2s, s2c, client, log, counters>>

----------------------------------------------------------------------------
(* Whiteboard.jsx: the socket *)

\* new window.Image() with src = shape.image
ImageObj(src) == [src |-> src]

\* The shape callback of handleDrawUpdate.
WithImage(shape) ==
    IF /\ Has(shape, "type") /\ shape.type = "image"
       /\ Has(shape, "image") /\ shape.image # ""
       /\ ~Has(shape, "imageObj")
    THEN With(shape, "imageObj", ImageObj(shape.image))
    ELSE shape

\* const pagesWithImages = data.pages.map(...)
pagesWithImages(data) ==
    [i \in DOMAIN data.pages |->
        With(data.pages[i], "shapes",
             [j \in DOMAIN data.pages[i].shapes |->
                 WithImage(data.pages[i].shapes[j])])]

\* handleDrawUpdate raises: page.shapes.map of a page that is null, of a
\* shapes value that is undefined or no array, shape.type of null.
HandleDrawUpdateThrows(data) ==
    \/ data = JSNull
    \/ /\ HasPages(data)
       /\ \/ ~IsArray(data.pages)
          \/ \E i \in DOMAIN data.pages :
                \/ ~ShapesIsArray(data.pages[i])
                \/ \E j \in DOMAIN data.pages[i].shapes :
                      data.pages[i].shapes[j] = JSNull

\* Variant of handleDrawUpdate that keeps the local pages the received
\* document has no page for.
handleDrawUpdateMerging(local, data) ==
    IF ~HandleDrawUpdateThrows(data) /\ HasPages(data)
    THEN pagesWithImages(data)
         \o SubSeq(local, Len(data.pages) + 1, Len(local))
    ELSE local

\* handleDrawUpdate(data): the local document after it
handleDrawUpdate(local, data) ==
    IF ~HandleDrawUpdateThrows(data) /\ HasPages(data)
    THEN pagesWithImages(data)
    ELSE local

\* The client takes the next message of its socket and runs handleDrawUpdate.
ClientReceive(c) ==
    /\ s2c[c] # <<>>
    /\ s2c' = [s2c EXCEPT ![c] = Tail(@)]
    /\ LET m == Head(s2c[c])
       IN  /\ pages' = [pages EXCEPT ![c] = handleDrawUpdate(@, m.data)]
           /\ log' = LogReceived(c, m.data.pages)
           /\ ev' = Event("apply", c, m.data)
    /\ UNCHANGED <<server, upload, connected, clock, c2s, gesture, counters>>

\* Variant of Serializable that sends the shape as it is held.
SerializableWithHandle(shape) == shape

\* The shape callback of emitDrawUpdate: const { imageObj, ...rest } = shape
Serializable(shape) ==
    IF Has(shape, "type") /\ shape.type = "image"
    THEN Without(shape, "imageObj")
    ELSE shape

\* const serializablePages = updatedPages.map(...)
serializablePages(updatedPages) ==
    [i \in DOMAIN updatedPages |->
        With(updatedPages[i], "shapes",
             [j \in DOMAIN updatedPages[i].shapes |->
                 Serializable(updatedPages[i].shapes[j])])]

\* emitDrawUpdate(updatedPages): the socket's outbound queue after it
emitDrawUpdate(c, updatedPages) ==
    IF c \in connected
    THEN [c2s EXCEPT ![c] =
            Append(@, Msg("draw-update", [pages |-> serializablePages(updatedPages)]))]
    ELSE c2s

\* Any program that speaks the protocol emits a message on socket c.
Emit(c, name, data) ==
    /\ c \in connected
    /\ emits' = emits + 1
    /\ c2s' = [c2s EXCEPT ![c] = Append(@, Msg(name, data))]
    /\ ev' = Event("emit", c, data)
    /\ UNCHANGED <<server, connected, clock, s2c, client, log, inputs>>

----------------------------------------------------------------------------
(* Whiteboard.jsx: pointer events, tools and pages *)

PenTools == {"pen", "eraser"}
ShapeTools == {"line", "rectangle", "circle"}
Tools == PenTools \cup ShapeTools \cup {"select"}

\* useState('#000000') and useState(5); the pickers are not modelled
selectedColor == "#000000"
selectedStrokeWidth == 5

\* Date.now().toString() + Math.random()
FreshId(t, random) == DateNowId(t) \o random

\* s.id !== 'temp'
NotTemp(s) == ~(Has(s, "id") /\ s.id = "temp")

\* currentPageIndex < 0 || currentPageIndex >= pages.length, negated; the model
\* counts positions from 1, so the position is currentPage itself
IndexValid(local, page) == page - 1 >= 0 /\ page - 1 < Len(local)

newLineOfOnePair(t, pos) ==
    [tool |-> t,
     points |-> <<pos.x, pos.y>>,
     color |-> IF t = "eraser" THEN "#FFFFFF" ELSE selectedColor,
     strokeWidth |-> selectedStrokeWidth,
     tension |-> "0.5",
     lineCap |-> "round",
     lineJoin |-> "round",
     globalCompositeOperation |->
        IF t = "eraser" THEN "destination-out" ELSE "source-over"]

\* const newLine = { tool, points: [pos.x, pos.y, pos.x, pos.y], ... }
newLine(t, pos) ==
    [tool |-> t,
     points |-> <<pos.x, pos.y, pos.x, pos.y>>,
     color |-> IF t = "eraser" THEN "#FFFFFF" ELSE selectedColor,
     strokeWidth |-> selectedStrokeWidth,
     tension |-> "0.5",
     lineCap |-> "round",
     lineJoin |-> "round",
     globalCompositeOperation |->
        IF t = "eraser" THEN "destination-out" ELSE "source-over"]

\* const tempShape = { id: 'temp', type: tool, ... }
tempShape(t, pos) ==
    [id |-> "temp", type |-> t, color |-> selectedColor,
     strokeWidth |-> selectedStrokeWidth,
     x |-> pos.x, y |-> pos.y, width |-> 0, height |-> 0,
     points |-> <<pos.x, pos.y, pos.x, pos.y>>]

\* handleMouseDown: the local document after it
MouseDownPages(local, page, t, pos) ==
    IF ~IndexValid(local, page) THEN local
    ELSE IF t \in PenTools
         THEN [local EXCEPT ![page].lines = Append(@, newLine(t, pos))]
    ELSE IF t \in ShapeTools
         THEN [local EXCEPT ![page].shapes = Append(@, tempShape(t, pos))]
    ELSE local

\* const currentPageData = pages.find(p => p.id === currentPage) || {...}
currentPageData(local, page) ==
    LET found == {i \in DOMAIN local : Has(local[i], "id") /\ local[i].id = page}
    IN  IF found = {} THEN [lines |-> <<>>, shapes |-> <<>>]
        ELSE local[CHOOSE i \in found : \A j \in found : i <= j]

\* the ids of the shapes the stage shows: an image only with its imageObj
RenderedIds(local, page) ==
    LET shapes == currentPageData(local, page).shapes
    IN  {shapes[i].id : i \in {j \in DOMAIN shapes :
            /\ Has(shapes[j], "id")
            /\ Has(shapes[j], "type")
            /\ shapes[j].type \in ShapeTools \cup {"image"}
            /\ shapes[j].type = "image" => Has(shapes[j], "imageObj")}}

\* what a pointer can hit: the empty stage (""), the transformer, a shape
Targets(c) ==
    IF tool[c] = "select"
    THEN {"", "transformer"} \cup RenderedIds(pages[c], currentPage[c])
    ELSE {""}

\* handleMouseDown: the selection after it
MouseDownSelection(selected, t, valid, target) ==
    IF t = "select" /\ valid /\ target # "transformer" THEN target ELSE selected

handleMouseDown(c, pos, target) ==
    /\ inputs' = inputs + 1
    /\ isDrawingRef' = [isDrawingRef EXCEPT ![c] = TRUE]
    /\ startPos' = [startPos EXCEPT ![c] = pos]
    /\ pages' = [pages EXCEPT ![c] = MouseDownPages(@, currentPage[c], tool[c], pos)]
    /\ selectedId' = [selectedId EXCEPT ![c] =
          MouseDownSelection(@, tool[c], IndexValid(pages[c], currentPage[c]),
                             target)]
    /\ ev' = Event("pointerDown", c, pos)
    /\ log' = LogInput(Event("pointerDown", c, pos))
    /\ UNCHANGED <<server, upload, connected, clock, c2s, s2c, currentPage, tool, emits>>

\* Variant of updatedTempShape that anchors the box at the pointer instead
\* of the smaller coordinates.
updatedTempShapeAtPointer(t, start, pos) ==
    IF t = "line"
    THEN [id |-> "temp", type |-> t, color |-> selectedColor,
          strokeWidth |-> selectedStrokeWidth,
          points |-> <<start.x, start.y, pos.x, pos.y>>,
          x |-> 0, y |-> 0, width |-> 0, height |-> 0]
    ELSE [id |-> "temp", type |-> t, color |-> selectedColor,
          strokeWidth |-> selectedStrokeWidth,
          x |-> pos.x,
          y |-> pos.y,
          width |-> IF pos.x >= start.x THEN pos.x - start.x ELSE start.x - pos.x,
          height |-> IF pos.y >= start.y THEN pos.y - start.y ELSE start.y - pos.y]

\* updatedTempShape of handleMouseMove
updatedTempShape(t, start, pos) ==
    IF t = "line"
    THEN [id |-> "temp", type |-> t, color |-> selectedColor,
          strokeWidth |-> selectedStrokeWidth,
          points |-> <<start.x, start.y, pos.x, pos.y>>,
          x |-> 0, y |-> 0, width |-> 0, height |-> 0]
    ELSE [id |-> "temp", type |-> t, color |-> selectedColor,
          strokeWidth |-> selectedStrokeWidth,
          x |-> IF start.x <= pos.x THEN start.x ELSE pos.x,
          y |-> IF start.y <= pos.y THEN start.y ELSE pos.y,
          width |-> IF pos.x >= start.x THEN pos.x - start.x ELSE start.x - pos.x,
          height |-> IF pos.y >= start.y THEN pos.y - start.y ELSE start.y - pos.y]

\* Variant of MouseMovePages that appends the preview without removing the
\* previous one.
MouseMovePagesAppend(local, page, t, start, pos) ==
    IF ~IndexValid(local, page) THEN local
    ELSE IF t \in PenTools
         THEN IF Len(local[page].lines) > 0
              THEN [local EXCEPT ![page].lines[Len(local[page].lines)].points =
                       @ \o <<pos.x, pos.y>>]
              ELSE local
    ELSE IF t \in ShapeTools
         THEN [local EXCEPT ![page].shapes =
                  Append(@, updatedTempShape(t, start, pos))]
    ELSE local

\* Variant of MouseMovePages that keeps the stroke a segment from its start
\* to the pointer.
MouseMovePagesSegment(local, page, t, start, pos) ==
    IF ~IndexValid(local, page) THEN local
    ELSE IF t \in PenTools
         THEN IF Len(local[page].lines) > 0
              THEN [local EXCEPT ![page].lines[Len(local[page].lines)].points =
                       SubSeq(@, 1, 2) \o <<pos.x, pos.y>>]
              ELSE local
    ELSE IF t \in ShapeTools
         THEN [local EXCEPT ![page].shapes =
                  SelectSeq(@, NotTemp) \o <<updatedTempShape(t, start, pos)>>]
    ELSE local

\* handleMouseMove: the local document after it
MouseMovePages(local, page, t, start, pos) ==
    IF ~IndexValid(local, page) THEN local
    ELSE IF t \in PenTools
         THEN IF Len(local[page].lines) > 0
              THEN [local EXCEPT ![page].lines[Len(local[page].lines)].points =
                       @ \o <<pos.x, pos.y>>]
              ELSE local
    ELSE IF t \in ShapeTools
         THEN [local EXCEPT ![page].shapes =
                  SelectSeq(@, NotTemp) \o <<updatedTempShape(t, start, pos)>>]
    ELSE local

ThrottlePeriod == 16

\* Variant of MouseMoveEmits that counts the points of the stroke, not its
\* numbers.
MouseMoveEmitsPerPoint(updatedPages, page, t) ==
    /\ IndexValid(updatedPages, page)
    /\ t \in PenTools
    /\ Len(updatedPages[page].lines) > 0
    /\ LET lastLineLength == Len(Last(updatedPages[page].lines).points) \div 2
       IN  lastLineLength # 0 /\ lastLineLength % ThrottlePeriod = 0

\* lastLineLength && lastLineLength % 16 === 0
MouseMoveEmits(updatedPages, page, t) ==
    /\ IndexValid(updatedPages, page)
    /\ t \in PenTools
    /\ Len(updatedPages[page].lines) > 0
    /\ LET lastLineLength == Len(Last(updatedPages[page].lines).points)
       IN  lastLineLength # 0 /\ lastLineLength % ThrottlePeriod = 0

handleMouseMove(c, pos) ==
    /\ isDrawingRef[c]
    /\ inputs' = inputs + 1
    /\ LET updatedPages ==
              MouseMovePages(pages[c], currentPage[c], tool[c], startPos[c], pos)
       IN  /\ pages' = [pages EXCEPT ![c] = updatedPages]
           /\ c2s' = IF MouseMoveEmits(updatedPages, currentPage[c], tool[c])
                     THEN emitDrawUpdate(c, updatedPages)
                     ELSE c2s
    /\ ev' = Event("pointerMove", c, pos)
    /\ log' = LogInput(Event("pointerMove", c, pos))
    /\ UNCHANGED <<server, upload, connected, clock, s2c, gesture, emits>>

\* tempShape.width > 0 || tempShape.height > 0 || (the two end points differ)
HasExtent(shape) ==
    \/ Has(shape, "width") /\ shape.width > 0
    \/ Has(shape, "height") /\ shape.height > 0
    \/ /\ Has(shape, "points")
       /\ Len(shape.points) >= 4
       /\ shape.points[1] # shape.points[3] \/ shape.points[2] # shape.points[4]

\* page.shapes.find(s => s.id === 'temp'): its position, 0 when there is none
FindTemp(shapes) ==
    LET found == {i \in DOMAIN shapes : ~NotTemp(shapes[i])}
    IN  IF found = {} THEN 0 ELSE CHOOSE i \in found : \A j \in found : i <= j

\* Variant of MouseUpPages that promotes the preview whatever its extent.
MouseUpPagesAnyExtent(local, page, t, id) ==
    IF t \in ShapeTools
    THEN LET shapes == local[page].shapes
             k == FindTemp(shapes)
         IN  IF k # 0
             THEN [local EXCEPT ![page].shapes =
                      SelectSeq(@, NotTemp) \o <<With(shapes[k], "id", id)>>]
             ELSE [local EXCEPT ![page].shapes = SelectSeq(@, NotTemp)]
    ELSE local

\* finalPages of handleMouseUp
MouseUpPages(local, page, t, id) ==
    IF t \in ShapeTools
    THEN LET shapes == local[page].shapes
             k == FindTemp(shapes)
         IN  IF k # 0 /\ HasExtent(shapes[k])
             THEN [local EXCEPT ![page].shapes =
                      SelectSeq(@, NotTemp) \o <<With(shapes[k], "id", id)>>]
             ELSE [local EXCEPT ![page].shapes = SelectSeq(@, NotTemp)]
    ELSE local

\* handleMouseUp reaches the line that calls Math.random()
Promotes(local, page, t) ==
    /\ IndexValid(local, page)
    /\ t \in ShapeTools
    /\ FindTemp(local[page].shapes) # 0
    /\ HasExtent(local[page].shapes[FindTemp(local[page].shapes)])

\* the shape ids of a document
ShapeIds(doc) ==
    IF IsArray(doc)
    THEN UNION {IF ShapesIsArray(doc[i])
                THEN {doc[i].shapes[j].id :
                         j \in {k \in DOMAIN doc[i].shapes :
                                   Has(doc[i].shapes[k], "id")}}
                ELSE {} : i \in DOMAIN doc}
    ELSE {}

\* the shape ids of the messages of a queue
QueuedShapeIds(queue) ==
    UNION {IF HasPages(queue[i].data) THEN ShapeIds(queue[i].data.pages) ELSE {} :
              i \in DOMAIN queue}

\* the shape ids held anywhere: by the server, a client or a message in flight
IdsInUse ==
    ShapeIds(currentPages)
    \cup UNION {ShapeIds(pages[c]) \cup QueuedShapeIds(c2s[c])
                   \cup QueuedShapeIds(s2c[c]) : c \in Clients}
    \cup UNION {IF upload[c].stage = "none" THEN {}
                ELSE ShapeIds(upload[c].pages) : c \in Clients}

\* Math.random() does not return a number again while an id made of it is in
\* use.
RandomIsNew(t, random) == FreshId(t, random) \notin IdsInUse

\* Variant of MouseUpEmit that sends only in the throttle phase, as
\* handleMouseMove does.
MouseUpEmitThrottled(c, finalPages) ==
    IF MouseMoveEmits(finalPages, currentPage[c], tool[c])
    THEN emitDrawUpdate(c, finalPages)
    ELSE c2s

\* Variant of MouseUpEmit that sends the document of the last render, as it
\* was before the preview was finalized.
MouseUpEmitStale(c, finalPages) == emitDrawUpdate(c, pages[c])

\* emitDrawUpdate(finalPages) of handleMouseUp
MouseUpEmit(c, finalPages) == emitDrawUpdate(c, finalPages)

\* Variant of handleMouseUp that emits the document also when currentPage has
\* no page.
handleMouseUpAlwaysEmitting(c, random) ==
    /\ isDrawingRef[c]
    /\ Promotes(pages[c], currentPage[c], tool[c]) => RandomIsNew(clock, random)
    /\ isDrawingRef' = [isDrawingRef EXCEPT ![c] = FALSE]
    /\ IF IndexValid(pages[c], currentPage[c])
       THEN LET finalPages == MouseUpPages(pages[c], currentPage[c], tool[c],
                                           FreshId(clock, random))
            IN  /\ pages' = [pages EXCEPT ![c] = finalPages]
                /\ c2s' = MouseUpEmit(c, finalPages)
       ELSE /\ pages' = pages
            /\ c2s' = MouseUpEmit(c, pages[c])
    /\ ev' = Event("pointerUp", c, NoData)
    /\ log' = LogInput(Event("pointerUp", c, NoData))
    /\ UNCHANGED <<server, upload, connected, clock, s2c, currentPage, tool, startPos,
                   selectedId, counters>>

handleMouseUp(c, random) ==
    /\ isDrawingRef[c]
    /\ Promotes(pages[c], currentPage[c], tool[c]) => RandomIsNew(clock, random)
    /\ isDrawingRef' = [isDrawingRef EXCEPT ![c] = FALSE]
    /\ IF IndexValid(pages[c], currentPage[c])
       THEN LET finalPages == MouseUpPages(pages[c], currentPage[c], tool[c],
                                           FreshId(clock, random))
            IN  /\ pages' = [pages EXCEPT ![c] = finalPages]
                /\ c2s' = MouseUpEmit(c, finalPages)
       ELSE UNCHANGED <<pages, c2s>>
    /\ ev' = Event("pointerUp", c, NoData)
    /\ log' = LogInput(Event("pointerUp", c, NoData))
    /\ UNCHANGED <<server, upload, connected, clock, s2c, currentPage, tool, startPos,
                   selectedId, counters>>

\* onClick={() => setTool(...)} of the toolbar
setTool(c, t) ==
    /\ t # tool[c]
    /\ inputs' = inputs + 1
    /\ tool' = [tool EXCEPT ![c] = t]
    /\ ev' = Event("setTool", c, NoData)
    /\ log' = LogInput(Event("setTool", c, NoData))
    /\ UNCHANGED <<server, upload, connected, clock, c2s, s2c, pages, currentPage,
                   isDrawingRef, startPos, selectedId, emits>>

\* Variant of newPageId without the increment.
newPageIdOfLast(local) ==
    IF Len(local) > 0
    THEN CHOOSE m \in {local[i].id : i \in DOMAIN local} :
             \A i \in DOMAIN local : local[i].id <= m
    ELSE 1

\* Math.max(...pages.map(p => p.id)) + 1, or 1 for no pages
newPageId(local) ==
    IF Len(local) > 0
    THEN (CHOOSE m \in {local[i].id : i \in DOMAIN local} :
             \A i \in DOMAIN local : local[i].id <= m) + 1
    ELSE 1

\* onClick of the Add Page button
AddPage(c) ==
    /\ inputs' = inputs + 1
    /\ LET newPage == [id |-> newPageId(pages[c]), lines |-> <<>>, shapes |-> <<>>]
           updatedPages == Append(pages[c], newPage)
       IN  /\ pages' = [pages EXCEPT ![c] = updatedPages]
           /\ currentPage' = [currentPage EXCEPT ![c] = newPage.id]
           /\ c2s' = emitDrawUpdate(c, updatedPages)
    /\ ev' = Event("addPage", c, NoData)
    /\ log' = LogInput(Event("addPage", c, NoData))
    /\ UNCHANGED <<server, upload, connected, clock, s2c, tool, isDrawingRef, startPos,
                   selectedId, emits>>

----------------------------------------------------------------------------
(* Whiteboard.jsx: image upload, drag, transform, clear *)

\* setSelectedId(null)
NoSelection == ""

\* no handleImageUpload has a callback pending
NoUpload == [stage |-> "none"]

\* the types for which file.type.startsWith('image/') holds
ImageTypes == {"image/png", "image/jpeg"}

\* !file || !file.type.startsWith('image/'), negated
IsImageFile(file) == file.present /\ file.type \in ImageTypes

\* const maxWidth = 300
maxWidth == 300

\* stageRef.current?.width() || window.innerWidth, and the height
stageWidth == 800
stageHeight == 600

\* imageObj.width * Math.min(maxWidth / imageObj.width, 1), and the same
\* ratio applied to the height
FitWidth(side, width) ==
    IF width > maxWidth THEN (side * maxWidth) \div width ELSE side

\* const newShape = { id: Date.now().toString() + Math.random(), ... }
newShape(t, random, file) ==
    LET width == FitWidth(file.width, file.width)
        height == FitWidth(file.height, file.width)
    IN  [id |-> FreshId(t, random),
         type |-> "image",
         x |-> (stageWidth \div 2) - (width \div 2),
         y |-> (stageHeight \div 2) - (height \div 2),
         width |-> width,
         height |-> height,
         image |-> file.dataUrl,
         imageObj |-> ImageObj(file.dataUrl),
         rotation |-> 0]

\* updatedPages of imageObj.onload: pages and currentPage are those of the
\* render in which handleImageUpload ran
InsertImagePages(local, page, shape) ==
    [i \in DOMAIN local |->
        IF i = page
        THEN With(local[i], "shapes", Append(local[i].shapes, shape))
        ELSE local[i]]

\* handleImageUpload up to reader.readAsDataURL(file); one upload at a time
handleImageUpload(c, file) ==
    /\ upload[c] = NoUpload
    /\ inputs' = inputs + 1
    /\ upload' = [upload EXCEPT ![c] =
          IF IsImageFile(file)
          THEN [stage |-> "reading", file |-> file,
                pages |-> pages[c], currentPage |-> currentPage[c]]
          ELSE NoUpload]
    /\ ev' = Event("upload", c, file)
    /\ log' = LogInput(Event("upload", c, file))
    /\ UNCHANGED <<server, connected, clock, c2s, s2c, pages, gesture, emits>>

\* reader.onload: imageObj.src = reader.result
readerOnload(c) ==
    /\ upload[c].stage = "reading"
    /\ upload[c].file.readable
    /\ upload' = [upload EXCEPT ![c].stage = "decoding"]
    /\ ev' = Event("readerLoad", c, upload[c].file)
    /\ UNCHANGED <<server, connected, clock, c2s, s2c, pages, gesture, log,
                   counters>>

\* reader.onerror: alert('Failed to read file.')
readerOnerror(c) ==
    /\ upload[c].stage = "reading"
    /\ ~upload[c].file.readable
    /\ upload' = [upload EXCEPT ![c] = NoUpload]
    /\ ev' = Event("readerError", c, upload[c].file)
    /\ UNCHANGED <<server, connected, clock, c2s, s2c, pages, gesture, log,
                   counters>>

\* Variant of imageOnerror that inserts the shape without its image handle.
imageOnerrorInserting(c) ==
    /\ upload[c].stage = "decoding"
    /\ ~upload[c].file.decodes
    /\ LET shape == Without(newShape(clock, "", upload[c].file), "imageObj")
           updatedPages ==
              InsertImagePages(upload[c].pages, upload[c].currentPage, shape)
       IN  /\ pages' = [pages EXCEPT ![c] = updatedPages]
           /\ c2s' = emitDrawUpdate(c, updatedPages)
    /\ upload' = [upload EXCEPT ![c] = NoUpload]
    /\ ev' = Event("imageError", c, upload[c].file)
    /\ UNCHANGED <<server, connected, clock, s2c, gesture, log, counters>>

\* imageObj.onerror: alert('Failed to load image.')
imageOnerror(c) ==
    /\ upload[c].stage = "decoding"
    /\ ~upload[c].file.decodes
    /\ upload' = [upload EXCEPT ![c] = NoUpload]
    /\ ev' = Event("imageError", c, upload[c].file)
    /\ UNCHANGED <<server, connected, clock, c2s, s2c, pages, gesture, log,
                   counters>>

\* imageObj.onload: setPages(updatedPages); emitDrawUpdate(updatedPages)
imageOnload(c, random) ==
    /\ upload[c].stage = "decoding"
    /\ upload[c].file.decodes
    /\ RandomIsNew(clock, random)
    /\ LET shape == newShape(clock, random, upload[c].file)
           updatedPages ==
              InsertImagePages(upload[c].pages, upload[c].currentPage, shape)
       IN  /\ pages' = [pages EXCEPT ![c] = updatedPages]
           /\ c2s' = emitDrawUpdate(c, updatedPages)
    /\ upload' = [upload EXCEPT ![c] = NoUpload]
    /\ ev' = Event("imageLoad", c, upload[c].file)
    /\ UNCHANGED <<server, connected, clock, s2c, gesture, log, counters>>

\* rotation: shape.rotation || 0 of the node of the shape the stage shows
\* under an id
RenderedRotation(local, page, id) ==
    LET shapes == currentPageData(local, page).shapes
        found == {j \in DOMAIN shapes : Has(shapes[j], "id") /\ shapes[j].id = id}
        first == CHOOSE j \in found : \A k \in found : j <= k
    IN  IF found # {} /\ Has(shapes[first], "rotation")
        THEN shapes[first].rotation
        ELSE 0

DragEndPagesEveryShape(local, page, id, node) ==
    [i \in DOMAIN local |->
        IF Has(local[i], "id") /\ local[i].id = page
        THEN With(local[i], "shapes",
                  [j \in DOMAIN local[i].shapes |->
                      With(With(With(local[i].shapes[j], "x", node.x),
                                "y", node.y),
                           "rotation", node.rotation)])
        ELSE local[i]]

\* updatedPages of handleDragEnd
DragEndPages(local, page, id, node) ==
    [i \in DOMAIN local |->
        IF Has(local[i], "id") /\ local[i].id = page
        THEN With(local[i], "shapes",
                  [j \in DOMAIN local[i].shapes |->
                      LET s == local[i].shapes[j]
                      IN  IF Has(s, "id") /\ s.id = id
                          THEN With(With(With(s, "x", node.x), "y", node.y),
                                    "rotation", node.rotation)
                          ELSE s])
        ELSE local[i]]

\* a shape is draggable while the tool is select
handleDragEnd(c, id, pos) ==
    /\ tool[c] = "select"
    /\ id \in RenderedIds(pages[c], currentPage[c])
    /\ inputs' = inputs + 1
    /\ LET node == [x |-> pos.x, y |-> pos.y,
                    rotation |-> RenderedRotation(pages[c], currentPage[c], id)]
           updatedPages == DragEndPages(pages[c], currentPage[c], id, node)
       IN  /\ pages' = [pages EXCEPT ![c] = updatedPages]
           /\ c2s' = emitDrawUpdate(c, updatedPages)
    /\ ev' = Event("dragEnd", c, [id |-> id, pos |-> pos])
    /\ log' = LogInput(Event("dragEnd", c, [id |-> id, pos |-> pos]))
    /\ UNCHANGED <<server, connected, clock, s2c, gesture, upload, emits>>

\* a number that is not one: undefined * scale
NaN == [js |-> "NaN"]

Abs(n) == IF n < 0 THEN -n ELSE n

\* Math.max(5, shape.width * scaleX), for a side that may be undefined
MinSide == 5
ScaledSide(shape, side, scale) ==
    IF Has(shape, side)
    THEN IF shape[side] * scale > MinSide THEN shape[side] * scale ELSE MinSide
    ELSE NaN

\* updatedShape of handleTransformEnd
updatedShape(shape, node) ==
    IF Has(shape, "type") /\ shape.type = "line"
    THEN LET points == IF Has(shape, "points") THEN shape.points
                       ELSE <<0, 0, 0, 0>>
             relativeEndX == IF Len(points) >= 3 THEN points[3] ELSE 0
             relativeEndY == IF Len(points) >= 4 THEN points[4] ELSE 0
             newRelativeEndX == relativeEndX * node.scaleX
             newRelativeEndY == relativeEndY * node.scaleY
         IN  [f \in DOMAIN shape \cup
                    {"x", "y", "points", "rotation", "width", "height"} |->
                CASE f = "x" -> node.x
                  [] f = "y" -> node.y
                  [] f = "points" -> <<0, 0, newRelativeEndX, newRelativeEndY>>
                  [] f = "rotation" -> node.rotation
                  [] f = "width" -> Abs(newRelativeEndX)
                  [] f = "height" -> Abs(newRelativeEndY)
                  [] OTHER -> shape[f]]
    ELSE [f \in DOMAIN shape \cup {"x", "y", "width", "height", "rotation"} |->
                CASE f = "x" -> node.x
                  [] f = "y" -> node.y
                  [] f = "width" -> ScaledSide(shape, "width", node.scaleX)
                  [] f = "height" -> ScaledSide(shape, "height", node.scaleY)
                  [] f = "rotation" -> node.rotation
                  [] OTHER -> shape[f]]

\* updatedPages of handleTransformEnd
TransformEndPages(local, page, id, node) ==
    [i \in DOMAIN local |->
        IF Has(local[i], "id") /\ local[i].id = page
        THEN With(local[i], "shapes",
                  [j \in DOMAIN local[i].shapes |->
                      LET s == local[i].shapes[j]
                      IN  IF Has(s, "id") /\ s.id = id
                          THEN updatedShape(s, node)
                          ELSE s])
        ELSE local[i]]

\* the transformer holds the node of the selected shape while the tool is
\* select
handleTransformEnd(c, id, node) ==
    /\ tool[c] = "select"
    /\ selectedId[c] = id
    /\ id \in RenderedIds(pages[c], currentPage[c])
    /\ inputs' = inputs + 1
    /\ LET updatedPages == TransformEndPages(pages[c], currentPage[c], id, node)
       IN  /\ pages' = [pages EXCEPT ![c] = updatedPages]
           /\ c2s' = emitDrawUpdate(c, updatedPages)
    /\ ev' = Event("transformEnd", c, [id |-> id, node |-> node])
    /\ log' = LogInput(Event("transformEnd", c, [id |-> id, node |-> node]))
    /\ UNCHANGED <<server, connected, clock, s2c, gesture, upload, emits>>

\* updatedPages of clearCanvas
ClearPages(local, page) ==
    [i \in DOMAIN local |->
        IF Has(local[i], "id") /\ local[i].id = page
        THEN With(With(local[i], "lines", <<>>), "shapes", <<>>)
        ELSE local[i]]

\* clearCanvas; confirmed is the answer to window.confirm
clearCanvas(c, confirmed) ==
    /\ inputs' = inputs + 1
    /\ IF confirmed
       THEN LET updatedPages == ClearPages(pages[c], currentPage[c])
            IN  /\ pages' = [pages EXCEPT ![c] = updatedPages]
                /\ selectedId' = [selectedId EXCEPT ![c] = NoSelection]
                /\ c2s' = emitDrawUpdate(c, updatedPages)
       ELSE UNCHANGED <<pages, selectedId, c2s>>
    /\ ev' = Event("clear", c, confirmed)
    /\ log' = LogInput(Event("clear", c, confirmed))
    /\ UNCHANGED <<server, connected, clock, s2c, currentPage, tool,
                   isDrawingRef, startPos, upload, emits>>

----------------------------------------------------------------------------
(* Initial state *)

\* let currentPages = [{ id: 1, lines: [], shapes: [] }]  and
\* useState([{ id: 1, lines: [], shapes: [] }])
InitialPages == <<[id |-> 1, lines |-> <<>>, shapes |-> <<>>]>>

InitialTool == "pen"
Origin == [x |-> 0, y |-> 0]

InitServer ==
    /\ currentPages = InitialPages
    /\ serverUp = TRUE

InitClients ==
    /\ pages = [c \in Clients |-> InitialPages]
    /\ currentPage = [c \in Clients |-> 1]
    /\ tool = [c \in Clients |-> InitialTool]
    /\ isDrawingRef = [c \in Clients |-> FALSE]
    /\ startPos = [c \in Clients |-> Origin]
    /\ selectedId = [c \in Clients |-> NoSelection]
    /\ upload = [c \in Clients |-> NoUpload]

InitNetwork ==
    /\ connected = {}
    /\ c2s = [c \in Clients |-> <<>>]
    /\ s2c = [c \in Clients |-> <<>>]

NoHistory(on) ==
    [on |-> on, commits |-> <<>>, by |-> <<>>, events |-> <<>>,
     received |-> [c \in Clients |-> <<>>]]

InitHistory ==
    /\ log = NoHistory(TRUE)
    /\ ev = Event("start", "", NoData)
    /\ inputs = 0
    /\ emits = 0

\* The same, with no history of the documents kept.
InitNoHistory ==
    /\ log = NoHistory(FALSE)
    /\ ev = Event("start", "", NoData)
    /\ inputs = 0
    /\ emits = 0

Init == InitServer /\ InitClients /\ InitNetwork /\ InitHistory /\ clock = 0

----------------------------------------------------------------------------
(* The server with clients that emit any payload *)

RectNoPos == [id |-> "r", type |-> "rectangle", width |-> 4, height |-> 3]
LineNoId == [type |-> "line", x |-> 1, y |-> 2, strokeWidth |-> 2]

DocRect == <<[id |-> 1, lines |-> <<>>, shapes |-> <<RectNoPos>>]>>
DocTwoPages ==
    <<[id |-> 1, lines |-> <<>>, shapes |-> <<LineNoId>>], [id |-> 2, lines |-> <<>>]>>

ServerPayloads ==
    { [pages |-> DocRect], [pages |-> DocTwoPages], [page |-> DocRect],
      [pages |-> <<JSNull>>] }

MessageNames == {"draw-update", "add-page"}

NextServer ==
    \/ \E c \in Clients : Connect(c)
    \/ \E c \in Clients : Disconnect(c)
    \/ /\ emits < MaxEmits
       /\ \E c \in Clients, name \in MessageNames, data \in ServerPayloads :
             Emit(c, name, data)
    \/ \E c \in Clients : ServerReceive(c)
    \/ \E c \in Clients : ClientReceive(c)

SpecServer == Init /\ [][NextServer]_vars

----------------------------------------------------------------------------
(* The server handling one message, for every kind of payload *)

ShapeTypes == {"line", "rectangle"}
OptionalFields == {"id", "x", "y", "width", "height", "strokeWidth", "points"}

FullShape(type) ==
    [id |-> "s", type |-> type, x |-> 1, y |-> 2, width |-> 3, height |-> 4,
     strokeWidth |-> 2, points |-> <<0, 0, 1, 1>>]

Restrict(obj, missing) == [f \in DOMAIN obj \ missing |-> obj[f]]

\* shapes with any subset of their fields missing, an empty id or falsy points
NormShapes ==
    {Restrict(FullShape(type), missing) :
        type \in ShapeTypes, missing \in SUBSET OptionalFields}
    \cup {With(FullShape("line"), "id", ""),
          With(FullShape("line"), "points", NonArrayFalsy),
          With(FullShape("rectangle"), "points", NonArrayFalsy)}

PageOf(shapes) == [id |-> 1, lines |-> <<>>, shapes |-> shapes]

NormPages ==
    {PageOf(<<s>>) : s \in NormShapes}
    \cup {PageOf(<<RectNoPos, LineNoId, LineNoId>>), PageOf(<<>>),
          PageOf(NonArrayTruthy), PageOf(NonArrayFalsy),
          [id |-> 1, lines |-> <<>>],
          PageOf(<<JSNull>>), PageOf(<<JSNumber>>), JSNull, JSNumber}

NormDocs ==
    {<<p>> : p \in NormPages}
    \cup {<<>>, DocTwoPages, NonArrayTruthy, NonArrayFalsy}

NormPayloads == {[pages |-> d] : d \in NormDocs} \cup {[page |-> DocRect], JSNull}

\* Client A is connected, has applied its snapshot and has emitted one message.
InitNorm ==
    /\ InitServer
    /\ InitClients
    /\ connected = {"A"}
    /\ s2c = [c \in Clients |-> <<>>]
    /\ \E name \in MessageNames, data \in NormPayloads :
          /\ c2s = [c \in Clients |->
                      IF c = "A" THEN <<Msg(name, data)>> ELSE <<>>]
          /\ ev = Event("emit", "A", data)
    /\ log = [NoHistory(TRUE) EXCEPT !.received["A"] = <<InitialPages>>]
    /\ inputs = 0
    /\ emits = 1
    /\ clock = 0

\* A client submits a document it has received, as it is.
SendBack(c) ==
    \E i \in DOMAIN log.received[c] :
        Emit(c, "draw-update", [pages |-> log.received[c][i]])

NextNorm ==
    \/ emits < MaxEmits /\ \E c \in Clients : SendBack(c)
    \/ \E c \in Clients : ServerReceive(c)
    \/ \E c \in Clients : ClientReceive(c)
    \/ Tick

SpecNorm == InitNorm /\ [][NextNorm]_vars

----------------------------------------------------------------------------
(* One user at the whiteboard, another program sending documents *)

Positions == {[x |-> 1, y |-> 1], [x |-> 4, y |-> 1], [x |-> 2, y |-> 5]}
Randoms == {"0.25", "0.75"}

ImageShape ==
    [id |-> "i", type |-> "image", x |-> 1, y |-> 1, width |-> 3, height |-> 2,
     image |-> "data:image/png;base64,AAAA", rotation |-> 0]

DocImage ==
    <<[id |-> 1, lines |-> <<>>,
       shapes |-> <<ImageShape, tempShape("circle", Origin)>>]>>
DocStroke ==
    <<[id |-> 1, lines |-> <<newLine("pen", Origin)>>, shapes |-> <<>>],
      [id |-> 2, lines |-> <<>>, shapes |-> <<RectNoPos>>]>>

\* the documents of other clients, as the server commits them
RemoteDocs == {processedPages([pages |-> d], 0) : d \in {DocImage, DocStroke}}

DrawUpdate(doc) == Msg("draw-update", [pages |-> doc])

\* Every client has just connected: its snapshot is on the way.
InitConnected ==
    /\ InitServer
    /\ InitClients
    /\ connected = Clients
    /\ c2s = [c \in Clients |-> <<>>]
    /\ s2c = [c \in Clients |-> <<DrawUpdate(InitialPages)>>]
    /\ InitNoHistory
    /\ clock = 0

\* Client A has just connected and has selected a tool; the server may have
\* committed and broadcast the document of another client since.
InitClient ==
    /\ serverUp = TRUE
    /\ connected = {"A"}
    /\ c2s = [c \in Clients |-> <<>>]
    /\ \E remote \in {<<>>} \cup {<<d>> : d \in RemoteDocs} :
          /\ currentPages = Last(<<InitialPages>> \o remote)
          /\ s2c = [c \in Clients |->
                      IF c = "A"
                      THEN [i \in 1..(1 + Len(remote)) |->
                              DrawUpdate((<<InitialPages>> \o remote)[i])]
                      ELSE <<>>]
    /\ pages = [c \in Clients |-> InitialPages]
    /\ currentPage = [c \in Clients |-> 1]
    /\ tool \in [Clients -> Tools]
    /\ tool["B"] = InitialTool
    /\ isDrawingRef = [c \in Clients |-> FALSE]
    /\ startPos = [c \in Clients |-> Origin]
    /\ selectedId = [c \in Clients |-> NoSelection]
    /\ upload = [c \in Clients |-> NoUpload]
    /\ InitNoHistory
    /\ clock = 0

\* What the user of client c does, but for releasing the pointer.
\* One input of the user of client c, the pointer at one of the positions
\* and the toolbar choice one of the tools.
UserInputFrom(c, positions, tools) ==
    \/ \E pos \in positions, target \in Targets(c) : handleMouseDown(c, pos, target)
    \/ \E pos \in positions : handleMouseMove(c, pos)
    \/ \E t \in tools : setTool(c, t)
    \/ AddPage(c)

UserInput(c) == UserInputFrom(c, Positions, Tools)

PointerUp(c) == \E random \in Randoms : handleMouseUp(c, random)

\* The user of client A and the messages that reach A; what A emits stays
\* queued.
NextClient ==
    \/ inputs < MaxInputs /\ UserInput("A")
    \/ PointerUp("A")
    \/ ClientReceive("A")

SpecClient == InitClient /\ [][NextClient]_vars

----------------------------------------------------------------------------
(* The whole system: two users, the server, the sockets *)

SyncPositions == {[x |-> 1, y |-> 1], [x |-> 4, y |-> 1]}
SyncTools == {"pen", "rectangle"}

NextSync ==
    \/ inputs < MaxSyncInputs /\ \E c \in Clients : UserInputFrom(c, SyncPositions, SyncTools)
    \/ \E c \in Clients : PointerUp(c)
    \/ \E c \in Clients : ServerReceive(c)
    \/ \E c \in Clients : ClientReceive(c)

Spec == InitConnected /\ [][NextSync]_vars

\* Every gesture is ended by a pointerUp and every message is delivered.
Fairness ==
    \A c \in Clients :
        /\ WF_vars(PointerUp(c))
        /\ WF_vars(ServerReceive(c))
        /\ WF_vars(ClientReceive(c))

FairSpec == Spec /\ Fairness

----------------------------------------------------------------------------
(* One user at client A while client B watches, with the history kept *)

MaxScenarioInputs == 2

ScenarioPositions == {[x |-> 10, y |-> 10], [x |-> 50, y |-> 40]}

\* Both clients have connected and applied their snapshot; A has selected a
\* tool.
InitScenario ==
    /\ InitServer
    /\ pages = [c \in Clients |-> InitialPages]
    /\ currentPage = [c \in Clients |-> 1]
    /\ tool \in [Clients -> SyncTools]
    /\ tool["B"] = InitialTool
    /\ isDrawingRef = [c \in Clients |-> FALSE]
    /\ startPos = [c \in Clients |-> Origin]
    /\ selectedId = [c \in Clients |-> NoSelection]
    /\ upload = [c \in Clients |-> NoUpload]
    /\ connected = Clients
    /\ c2s = [c \in Clients |-> <<>>]
    /\ s2c = [c \in Clients |-> <<>>]
    /\ log = [NoHistory(TRUE) EXCEPT
                 !.received = [c \in Clients |-> <<InitialPages>>]]
    /\ ev = Event("start", "", NoData)
    /\ inputs = 0
    /\ emits = 0
    /\ clock = 0

NextScenario ==
    \/ inputs < MaxScenarioInputs
          /\ UserInputFrom("A", ScenarioPositions, SyncTools)
    \/ PointerUp("A")
    \/ \E c \in Clients : ServerReceive(c)
    \/ \E c \in Clients : ClientReceive(c)
    \/ Tick

SpecScenario == InitScenario /\ [][NextScenario]_vars

----------------------------------------------------------------------------
(* One user who also inserts images, drags, transforms and clears *)

MaxEditInputs == 2

EditPositions == {[x |-> 1, y |-> 1], [x |-> 4, y |-> 1]}
EditTools == {"select", "rectangle"}

\* what the node of a transformed shape holds at transformEnd
EditNodes ==
    {[x |-> 4, y |-> 1, scaleX |-> 2, scaleY |-> 1, rotation |-> 0],
     [x |-> 1, y |-> 1, scaleX |-> 1, scaleY |-> 1, rotation |-> 90]}

\* e.target.files?.[0]: nothing, a text file, an image file that cannot be
\* read, one that cannot be decoded, a photo
NoFile ==
    [present |-> FALSE, type |-> "", readable |-> FALSE, decodes |-> FALSE,
     width |-> 0, height |-> 0, dataUrl |-> ""]
TextFile ==
    [present |-> TRUE, type |-> "text/plain", readable |-> TRUE,
     decodes |-> FALSE, width |-> 0, height |-> 0,
     dataUrl |-> "data:text/plain;base64,CCCC"]
UnreadableImage ==
    [present |-> TRUE, type |-> "image/png", readable |-> FALSE,
     decodes |-> FALSE, width |-> 0, height |-> 0, dataUrl |-> ""]
CorruptImage ==
    [present |-> TRUE, type |-> "image/jpeg", readable |-> TRUE,
     decodes |-> FALSE, width |-> 0, height |-> 0,
     dataUrl |-> "data:image/jpeg;base64,DDDD"]
Photo ==
    [present |-> TRUE, type |-> "image/png", readable |-> TRUE,
     decodes |-> TRUE, width |-> 600, height |-> 400,
     dataUrl |-> "data:image/png;base64,BBBB"]
Files == {NoFile, TextFile, UnreadableImage, CorruptImage, Photo}

\* Client A has just connected with the select or the rectangle tool chosen.
InitEdit == InitClient /\ tool["A"] \in EditTools

\* One input of the user of client c other than a pointer event, a tool
\* choice or Add Page.
EditInput(c) ==
    \/ \E file \in Files : handleImageUpload(c, file)
    \/ \E id \in RenderedIds(pages[c], currentPage[c]), pos \in EditPositions :
          handleDragEnd(c, id, pos)
    \/ \E id \in RenderedIds(pages[c], currentPage[c]), node \in EditNodes :
          handleTransformEnd(c, id, node)
    \/ \E confirmed \in BOOLEAN : clearCanvas(c, confirmed)

\* The callbacks of an upload of client c.
UploadProgress(c) ==
    \/ readerOnload(c)
    \/ readerOnerror(c)
    \/ \E random \in Randoms : imageOnload(c, random)
    \/ imageOnerror(c)

NextEdit ==
    \/ inputs < MaxEditInputs /\ UserInputFrom("A", EditPositions, EditTools)
    \/ inputs < MaxEditInputs /\ EditInput("A")
    \/ PointerUp("A")
    \/ UploadProgress("A")
    \/ ClientReceive("A")

SpecEdit == InitEdit /\ [][NextEdit]_vars

----------------------------------------------------------------------------
(* A user who edits only while the connection is down *)

MaxOfflineInputs == 2

\* The socket of A drops and reconnects; the user of A gives input only
\* while it is down and may release the pointer at any time; B watches.
NextOffline ==
    \/ /\ inputs < MaxOfflineInputs
       /\ "A" \notin connected
       /\ UserInputFrom("A", SyncPositions, SyncTools)
    \/ PointerUp("A")
    \/ Disconnect("A")
    \/ Connect("A")
    \/ ServerReceive("A")
    \/ \E c \in Clients : ClientReceive(c)

SpecOffline == InitConnected /\ [][NextOffline]_vars

----------------------------------------------------------------------------
(* A user who only clicks with the select tool, and the server *)

MaxSelectInputs == 2

\* Client A has just connected with the select tool chosen.
InitSelect == InitClient /\ tool["A"] = "select"

\* The user of A presses and releases the pointer; the server handles what A
\* emits and A what the server sent.
NextSelect ==
    \/ /\ inputs < MaxSelectInputs
       /\ \E pos \in SyncPositions, target \in Targets("A") :
             handleMouseDown("A", pos, target)
    \/ PointerUp("A")
    \/ ServerReceive("A")
    \/ ClientReceive("A")

SpecSelect == InitSelect /\ [][NextSelect]_vars

----------------------------------------------------------------------------
(* One user who draws a long stroke *)

MaxDrawInputs == 7

\* the pointer stays where it is: the throttle counts the points, whatever
\* they are
DrawPositions == {[x |-> 1, y |-> 1]}

\* Client A has just connected with the pen or the eraser chosen.
InitDraw == InitClient /\ tool["A"] \in PenTools

\* The user of A presses, moves and releases the pointer; the documents sent
\* to A reach it.
NextDraw ==
    \/ /\ inputs < MaxDrawInputs
       /\ \E pos \in DrawPositions : handleMouseDown("A", pos, "")
    \/ /\ inputs < MaxDrawInputs
       /\ \E pos \in DrawPositions : handleMouseMove("A", pos)
    \/ PointerUp("A")
    \/ ClientReceive("A")

SpecDraw == InitDraw /\ [][NextDraw]_vars

----------------------------------------------------------------------------
(* One user who selects, drags and transforms the shapes of a drawn page *)

MaxTransformInputs == 2

\* the document after a gesture with a shape tool from start to pos on page
\* 1: pointerDown, pointerMove, pointerUp
Drawn(local, t, start, pos, id) ==
    MouseUpPages(MouseMovePages(MouseDownPages(local, 1, t, start),
                                1, t, start, pos),
                 1, t, id)

\* a page with a line, a rectangle and a circle drawn with the tools, and an
\* inserted photo, as the server stores it
DrawnDoc ==
    LET line == Drawn(InitialPages, "line",
                      [x |-> 2, y |-> 1], [x |-> 8, y |-> 5], FreshId(0, "0.1"))
        rect == Drawn(line, "rectangle",
                      [x |-> 7, y |-> 9], [x |-> 1, y |-> 1], FreshId(0, "0.2"))
        circle == Drawn(rect, "circle",
                        [x |-> 1, y |-> 1], [x |-> 9, y |-> 7], FreshId(0, "0.3"))
        photo == InsertImagePages(circle, 1, newShape(0, "0.4", Photo))
    IN  processedPages([pages |-> serializablePages(photo)], 0)

\* what the node of a transformed shape holds: scale factors above 1, 1, zero
\* and negative
ScaleFactors == {-1, 0, 1, 2}
TransformNodes ==
    {[x |-> 4, y |-> 1, scaleX |-> sx, scaleY |-> sy, rotation |-> r] :
        sx \in ScaleFactors, sy \in ScaleFactors, r \in {0, 90}}

\* Client A has applied the drawn document and has chosen the select tool.
InitTransform ==
    /\ serverUp = TRUE
    /\ currentPages = DrawnDoc
    /\ connected = {"A"}
    /\ c2s = [c \in Clients |-> <<>>]
    /\ s2c = [c \in Clients |-> <<>>]
    /\ pages = [c \in Clients |->
                  IF c = "A" THEN handleDrawUpdate(InitialPages, [pages |-> DrawnDoc])
                  ELSE InitialPages]
    /\ currentPage = [c \in Clients |-> 1]
    /\ tool = [c \in Clients |-> IF c = "A" THEN "select" ELSE InitialTool]
    /\ isDrawingRef = [c \in Clients |-> FALSE]
    /\ startPos = [c \in Clients |-> Origin]
    /\ selectedId = [c \in Clients |-> NoSelection]
    /\ upload = [c \in Clients |-> NoUpload]
    /\ InitNoHistory
    /\ clock = 0

NextTransform ==
    \/ /\ inputs < MaxTransformInputs
       /\ \E pos \in EditPositions, target \in Targets("A") :
             handleMouseDown("A", pos, target)
    \/ PointerUp("A")
    \/ /\ inputs < MaxTransformInputs
       /\ \E id \in RenderedIds(pages["A"], currentPage["A"]),
             pos \in EditPositions : handleDragEnd("A", id, pos)
    \/ /\ inputs < MaxTransformInputs
       /\ \E id \in RenderedIds(pages["A"], currentPage["A"]),
             node \in TransformNodes : handleTransformEnd("A", id, node)

SpecTransform == InitTransform /\ [][NextTransform]_vars

----------------------------------------------------------------------------
(* Helpers of the properties *)

IsSuffix(s, t) ==
    /\ Len(s) <= Len(t)
    /\ \A i \in 1..Len(s) : s[i] = t[Len(t) - Len(s) + i]

\* the documents queued for client c, in order
Queued(c) == [i \in DOMAIN s2c[c] |-> s2c[c][i].data.pages]

\* the last step was the server running a draw-update listener that found a
\* pages value and did not raise
DrawUpdateDone(e) ==
    e.op = "draw-update" /\ HasPages(e.data) /\ ~DrawUpdateThrows(e.data)

----------------------------------------------------------------------------
(* Properties of the server, under SpecServer *)

\* C1: when the server handles a draw-update that carries pages (and the
\* listener does not raise), the Document Store becomes the normalized
\* payload and exactly one draw-update carrying the new Document Store is
\* appended to the queue of every connected client, the sender included;
\* no other queue changes.
DrawUpdateBroadcastsToAll ==
    [][DrawUpdateDone(ev') =>
        /\ currentPages' = processedPages(ev'.data, clock)
        /\ ev'.client \in connected
        /\ \A d \in Clients :
              s2c'[d] = IF d \in connected
                        THEN Append(s2c[d],
                                    Msg("draw-update", [pages |-> currentPages']))
                        ELSE s2c[d]]_vars

\* C1 witness: a draw-update of A was handled while B was connected too, and
\* both have the new document last in their queue.
DrawUpdateBroadcastSeen ==
    /\ DrawUpdateDone(ev)
    /\ connected = Clients
    /\ \A d \in Clients : s2c[d] # <<>> /\ Last(Queued(d)) = currentPages

\* C2: last writer wins: whatever was committed before, after a draw-update
\* that carries pages the Document Store is the normalized payload of that
\* message alone.
LastWriterWins ==
    DrawUpdateDone(ev) => currentPages = processedPages(ev.data, clock)

\* C2 witness: a second, different document has replaced an earlier one.
SecondWriterWon ==
    /\ DrawUpdateDone(ev)
    /\ Len(log.commits) = 2
    /\ log.commits[1] # log.commits[2]
    /\ log.commits[1] # InitialPages
    /\ currentPages = log.commits[2]

\* the documents a single message can produce
SingleMessageDocuments ==
    {processedPages(d, t) :
        d \in {p \in ServerPayloads : HasPages(p) /\ ~DrawUpdateThrows(p)},
        t \in 0..MaxClock}
    \cup {d.pages : d \in {p \in ServerPayloads : HasPages(p)}}

\* C3: messages are handled one at a time: the Document Store is always the
\* initial document or the complete document of a single message, never a
\* mix, and every connected client has received and has queued, in commit
\* order, the snapshot of its connection followed by exactly the documents
\* committed since, so clients that stay connected get the same sequence.
SerializedCommits ==
    /\ currentPages \in SingleMessageDocuments \cup {InitialPages}
    /\ currentPages = IF log.commits = <<>> THEN InitialPages
                      ELSE Last(log.commits)
    /\ \A c \in connected :
          LET got == log.received[c] \o Queued(c)
          IN  /\ got # <<>>
              /\ IsSuffix(Tail(got), log.commits)

\* C3 witness: two clients sent different documents concurrently and both
\* commits are queued for both clients.
ConcurrentUpdatesSerialized ==
    /\ connected = Clients
    /\ Len(log.commits) = 2
    /\ log.by = <<"B", "A">>
    /\ log.commits[1] # log.commits[2]
    /\ \A c \in Clients : Len(Queued(c)) >= 2
    /\ ev.op \in MessageNames

\* C6: no inbound message makes the server fail.
NoMessageFailsServer == ev.op \in MessageNames => serverUp

\* the numeric fields the Normalizer fills
NumericFields == {"x", "y", "width", "height", "strokeWidth"}

NumericDefined(doc) ==
    \A i \in DOMAIN doc :
        ShapesIsArray(doc[i]) =>
            \A j \in DOMAIN doc[i].shapes :
                NumericFields \subseteq DOMAIN doc[i].shapes[j]

\* C7: every document the server sends has every shape with defined x, y,
\* width, height and strokeWidth.
WireNumericDefined ==
    \A c \in Clients : \A i \in DOMAIN s2c[c] : NumericDefined(Queued(c)[i])

\* C8: on a connection the server queues one draw-update carrying the current
\* Document Store for the new client only: no other queue and not the
\* Document Store changes, and no earlier document is sent.
SnapshotToNewClientOnly ==
    [][ev'.op = "connection" =>
        /\ currentPages' = currentPages
        /\ s2c' = [s2c EXCEPT ![ev'.client] =
                     <<Msg("draw-update", [pages |-> currentPages])>>]]_vars

\* C8 witness: a client joined after two commits, while the other client
\* still had messages queued, and got the current document only.
JoinedMidSession ==
    /\ ev.op = "connection"
    /\ Len(log.commits) = 2
    /\ log.commits[1] # currentPages
    /\ \E d \in Clients \ {ev.client} : d \in connected /\ s2c[d] # <<>>
    /\ Queued(ev.client) = <<currentPages>>

\* C20: a disconnection leaves the Document Store unchanged and queues no
\* message for the clients that remain, and the clients that remain get
\* every later broadcast.
DisconnectLeavesStore ==
    [][/\ ev'.op = "disconnect" =>
            /\ currentPages' = currentPages
            /\ serverUp' = serverUp
            /\ connected' = connected \ {ev'.client}
            /\ \A d \in Clients \ {ev'.client} : s2c'[d] = s2c[d]
       /\ (ev'.op \in MessageNames /\ currentPages' # currentPages)
            => \A d \in connected :
                  /\ s2c'[d] # <<>>
                  /\ Last(s2c'[d]) = Msg("draw-update", [pages |-> currentPages'])
                  /\ Len(s2c'[d]) = Len(s2c[d]) + 1]_vars

\* C20 witness: A's document was committed, A left, and B, still connected,
\* has been sent the document committed after that.
BroadcastAfterDeparture ==
    /\ connected = {"B"}
    /\ log.by = <<"A", "B">>
    /\ ev.op \in MessageNames
    /\ ev.client = "B"
    /\ log.commits[1] # log.commits[2]
    /\ Len(Queued("B")) >= 2
    /\ Last(Queued("B")) = currentPages
    /\ log.commits[2] = currentPages

----------------------------------------------------------------------------
(* Properties of the Normalizer, under SpecNorm *)

\* every page entry is an object and every entry of a shapes array is one
RecordsOnly(data) ==
    \A i \in DOMAIN data.pages :
        /\ IsObject(data.pages[i])
        /\ ShapesIsArray(data.pages[i]) =>
              \A j \in DOMAIN data.pages[i].shapes :
                  IsObject(data.pages[i].shapes[j])

\* the shape has every field defined, and the fields missing from the input
\* hold the defaults
Normalized(out, in) ==
    /\ {"id", "x", "y", "width", "height", "strokeWidth"} \subseteq DOMAIN out
    /\ out.id # ""
    /\ (Has(out, "type") /\ out.type = "line") => Has(out, "points")
    /\ ~Has(in, "x") => out.x = 0
    /\ ~Has(in, "y") => out.y = 0
    /\ ~Has(in, "width") => out.width = 10
    /\ ~Has(in, "height") => out.height = 10
    /\ ~Has(in, "strokeWidth") => out.strokeWidth = 5
    /\ (Has(in, "type") /\ in.type = "line" /\ ~Has(in, "points")) =>
          out.points = <<>>

\* C5: normalization totality: for every input document made of records
\* (shapes with any subset of their fields missing, a page whose shapes is
\* no sequence), every page of the output has a shapes sequence and every
\* shape has defined id, x, y, width, height, strokeWidth, and points when
\* it is a line; the missing ones are 0, 0, 10, 10, 5 and [].
NormalizationTotal ==
    (DrawUpdateDone(ev) /\ RecordsOnly(ev.data)) =>
        /\ Len(currentPages) = Len(ev.data.pages)
        /\ \A i \in DOMAIN currentPages :
              LET page == currentPages[i]
                  in == ev.data.pages[i]
              IN  /\ ShapesIsArray(page)
                  /\ Len(page.shapes) =
                        IF ShapesIsArray(in) THEN Len(in.shapes) ELSE 0
                  /\ \A j \in DOMAIN page.shapes :
                        Normalized(page.shapes[j], in.shapes[j])

\* C5 witness: a line that arrived with nothing but its type was stored.
BareLineNormalized ==
    /\ DrawUpdateDone(ev)
    /\ ev.data.pages = <<PageOf(<<[type |-> "line"]>>)>>
    /\ currentPages[1].shapes[1].points = <<>>

\* the documents the Normalizer produces
NormalizedDocs ==
    {processedPages(d, t) :
        d \in {p \in NormPayloads : HasPages(p) /\ ~DrawUpdateThrows(p)},
        t \in 0..MaxClock}

\* C16: idempotent broadcast: when a document the Normalizer has produced is
\* submitted, at whatever time, the Normalizer returns it unchanged, so the
\* Document Store after the submission is the document itself, as it was
\* after the submission that produced it.
ResubmissionIdempotent ==
    (DrawUpdateDone(ev) /\ ev.data.pages \in NormalizedDocs)
    => /\ currentPages = ev.data.pages
       /\ \A t \in 0..MaxClock : processedPages(ev.data, t) = ev.data.pages

\* C16 witness: a line that had got its id from the clock at 0 was submitted
\* again when the clock was at 1, and the two commits are the same.
NormalizedSubmittedAgain ==
    /\ DrawUpdateDone(ev)
    /\ clock = 1
    /\ Len(log.commits) = 2
    /\ log.commits[1] = log.commits[2]
    /\ ev.data.pages = log.commits[1]
    /\ currentPages =
          <<PageOf(<<[type |-> "line", id |-> DateNowId(0), points |-> <<>>,
                      x |-> 0, y |-> 0, width |-> 10, height |-> 10,
                      strokeWidth |-> 5]>>)>>

\* the shapes of the page that have an id other than 'temp': their positions
Permanent(page) ==
    IF IsObject(page) /\ ShapesIsArray(page)
    THEN {i \in DOMAIN page.shapes :
             Has(page.shapes[i], "id") /\ page.shapes[i].id # "temp"}
    ELSE {}

\* C18: shape ids are unique within a page of the Document Store, the ids
\* the Normalizer generates included.
StoreShapeIdsUnique ==
    IsArray(currentPages) =>
        \A p \in DOMAIN currentPages :
            \A i, j \in Permanent(currentPages[p]) :
                currentPages[p].shapes[i].id = currentPages[p].shapes[j].id
                    => i = j

----------------------------------------------------------------------------
(* Properties of the client, under SpecClient *)

\* the document without the image handles the client derives
WithoutHandles(doc) ==
    [i \in DOMAIN doc |->
        With(doc[i], "shapes",
             [j \in DOMAIN doc[i].shapes |->
                 IF Has(doc[i].shapes[j], "imageObj")
                 THEN Without(doc[i].shapes[j], "imageObj")
                 ELSE doc[i].shapes[j]])]

\* the shape has a handle exactly when it is an image with image data
HandleDerived(shape) ==
    Has(shape, "imageObj") <=>
        (Has(shape, "type") /\ shape.type = "image" /\ Has(shape, "image"))

\* C9: remote apply is a complete replacement: after a client applies a
\* received draw-update that carries pages, its local document is the
\* received one, page for page and shape for shape, but for the handle
\* derived for each image shape, whatever the local document was.
RemoteApplyReplaces ==
    [][(ev'.op = "apply" /\ HasPages(ev'.data)
            /\ ~HandleDrawUpdateThrows(ev'.data)) =>
        LET local == pages'[ev'.client]
        IN  /\ WithoutHandles(local) = ev'.data.pages
            /\ \A i \in DOMAIN local : \A j \in DOMAIN local[i].shapes :
                  /\ HandleDerived(local[i].shapes[j])
                  /\ Has(local[i].shapes[j], "imageObj") =>
                        local[i].shapes[j].imageObj =
                            ImageObj(local[i].shapes[j].image)]_vars

\* C9 witness: the client had added a page and was drawing when it applied
\* the one-page document with an image of another client.
RemoteApplyDroppedLocalPage ==
    /\ ev.op = "apply"
    /\ ev.data.pages \in RemoteDocs
    /\ Len(ev.data.pages) = 1
    /\ c2s["A"] # <<>>
    /\ Len(Last(c2s["A"]).data.pages) = 2
    /\ isDrawingRef["A"]
    /\ Len(pages["A"]) = 1
    /\ Has(pages["A"][1].shapes[1], "imageObj")

\* the number of shapes with id 'temp' on the client's current page
TempCount(local, page) ==
    IF IndexValid(local, page)
    THEN Cardinality({i \in DOMAIN local[page].shapes :
                         ~NotTemp(local[page].shapes[i])})
    ELSE 0

\* C10: at most one transient shape while previewing: a pointerDown with the
\* line, rectangle or circle tool on a page without a 'temp' shape, and every
\* pointerMove with such a tool after it, leave at most one shape with id
\* 'temp' on the current page.
PreviewKeepsOneTemp ==
    [][LET c == ev'.client
       IN  /\ (ev'.op = "pointerDown" /\ tool[c] \in ShapeTools
                  /\ TempCount(pages[c], currentPage[c]) = 0)
                => TempCount(pages'[c], currentPage[c]) <= 1
           /\ (ev'.op = "pointerMove" /\ tool[c] \in ShapeTools)
                => TempCount(pages'[c], currentPage[c]) <= 1]_vars

\* C10 witness: after a pointerDown and two pointerMoves with the rectangle
\* tool the page holds the preview of the last move only.
PreviewReplacedTwice ==
    /\ ev.op = "pointerMove"
    /\ tool["A"] = "rectangle"
    /\ inputs = 3
    /\ isDrawingRef["A"]
    /\ startPos["A"] = [x |-> 1, y |-> 1]
    /\ pages["A"][1].shapes =
          <<updatedTempShape("rectangle", [x |-> 1, y |-> 1], [x |-> 2, y |-> 5])>>

\* C11: promotion threshold: a preview that starts at a position, or is moved
\* back to it, has no extent, and one moved elsewhere has; a pointerUp on a
\* preview without extent leaves the permanent shapes of the page and no
\* 'temp', and a pointerUp on a preview with extent (width>0 or height>0, or
\* two different end points) adds to them exactly one shape, the preview with
\* a new id that is not 'temp' and is the id of no other shape of the page.
PromotionThreshold ==
    [][LET c == ev'.client
           page == currentPage[c]
           valid == IndexValid(pages[c], page)
           before == pages[c][page].shapes
           after == pages'[c][page].shapes
           others == SelectSeq(before, NotTemp)
           temp == before[FindTemp(before)]
       IN  /\ (ev'.op = "pointerDown" /\ tool[c] \in ShapeTools /\ valid)
                => ~HasExtent(Last(after))
           /\ (ev'.op = "pointerMove" /\ tool[c] \in ShapeTools /\ valid)
                => (HasExtent(Last(after)) <=> ev'.data # startPos[c])
           /\ (ev'.op = "pointerUp" /\ tool[c] \in ShapeTools /\ valid
                  /\ TempCount(pages[c], page) = 1)
                => IF HasExtent(temp)
                   THEN /\ Len(after) = Len(others) + 1
                        /\ SubSeq(after, 1, Len(others)) = others
                        /\ Last(after) = With(temp, "id", Last(after).id)
                        /\ Last(after).id # "temp"
                        /\ \A i \in DOMAIN others :
                              Has(others[i], "id") => others[i].id # Last(after).id
                   ELSE after = others]_vars

\* C11 witness: a rectangle dragged to the right only (height 0, width 3) was
\* promoted next to the shape another client had drawn on the page.
FlatRectanglePromoted ==
    /\ ev.op = "pointerUp"
    /\ tool["A"] = "rectangle"
    /\ currentPage["A"] = 2
    /\ Len(pages["A"]) = 2
    /\ Len(pages["A"][2].shapes) = 2
    /\ pages["A"][2].shapes[1].id = "r"
    /\ pages["A"][2].shapes[2] =
          With(updatedTempShape("rectangle", [x |-> 1, y |-> 1], [x |-> 4, y |-> 1]),
               "id", FreshId(0, "0.75"))

IsPrefix(s, t) == Len(s) <= Len(t) /\ SubSeq(t, 1, Len(s)) = s

\* C12: stroke append-only: on every pointerMove with the pen or the eraser
\* the points of the stroke in progress (the last stroke of the current page)
\* before the move are a prefix of its points after it, which are two more;
\* the stroke's other fields and the other strokes do not change.
StrokeAppendOnly ==
    [][LET c == ev'.client
           page == currentPage[c]
           before == pages[c][page].lines
           after == pages'[c][page].lines
       IN  (ev'.op = "pointerMove" /\ tool[c] \in PenTools
              /\ IndexValid(pages[c], page) /\ Len(before) > 0)
            => /\ Len(after) = Len(before)
               /\ SubSeq(after, 1, Len(before) - 1)
                     = SubSeq(before, 1, Len(before) - 1)
               /\ IsPrefix(Last(before).points, Last(after).points)
               /\ Len(Last(after).points) = Len(Last(before).points) + 2
               /\ Last(after) = With(Last(before), "points", Last(after).points)]_vars

\* C12 witness: the stroke of a pointerDown has grown by two moves, the last
\* one back to where the stroke began.
StrokeGrewTwice ==
    /\ ev.op = "pointerMove"
    /\ tool["A"] = "eraser"
    /\ isDrawingRef["A"]
    /\ Len(pages["A"][1].lines) = 1
    /\ pages["A"][1].lines[1].points = <<1, 1, 1, 1, 4, 1, 1, 1>>

----------------------------------------------------------------------------
(* Properties of the whole system, under FairSpec *)

Converged == \A c \in Clients : WithoutHandles(pages[c]) = currentPages

\* C4: convergence: when the clients stay connected, every gesture is ended
\* by a pointerUp, the inputs stop and every message is delivered in order,
\* eventually every client's local document equals the Document Store for
\* good.
EventuallyConverged == <>[]Converged

\* the page ids of the document are pairwise distinct
PageIdsDistinct(doc) ==
    \A i, j \in DOMAIN doc : doc[i].id = doc[j].id => i = j

\* C17: page ids are unique within the document: in every reachable state
\* the page ids of the Document Store and of every client's local document
\* are pairwise distinct, under any interleaving of the Add Page requests
\* and other inputs of the clients with the deliveries.
PageIdsUnique ==
    /\ PageIdsDistinct(currentPages)
    /\ \A c \in Clients : PageIdsDistinct(pages[c])

\* C17 witness: both clients asked for a page before either had heard of the
\* other's; one request has replaced the other and every document has the
\* pages 1 and 2.
ConcurrentPageAdds ==
    /\ inputs = 2
    /\ \A c \in Clients :
          /\ currentPage[c] = 2
          /\ c2s[c] = <<>> /\ s2c[c] = <<>>
          /\ pages[c] = currentPages
    /\ Len(currentPages) = 2
    /\ currentPages[2].id = 2

PageIds(doc) == {doc[i].id : i \in DOMAIN doc}

\* C19: pages are never deleted: a page id that is in the Document Store is
\* in the Document Store after every step.
PagesNeverDeleted ==
    [][PageIds(currentPages) \subseteq PageIds(currentPages')]_vars

\* C4 witness: both users have drawn, nothing is in flight and every local
\* document is the Document Store, which holds a stroke.
ConvergedOnStroke ==
    /\ Converged
    /\ inputs >= 2
    /\ \A c \in Clients : c2s[c] = <<>> /\ s2c[c] = <<>> /\ ~isDrawingRef[c]
    /\ ev.op = "apply"
    /\ Len(currentPages[1].lines) = 1

----------------------------------------------------------------------------
(* Scenarios, under SpecScenario *)

\* the rectangle drag of the scenario
RectangleDrag ==
    <<Event("pointerDown", "A", [x |-> 10, y |-> 10]),
      Event("pointerMove", "A", [x |-> 50, y |-> 40]),
      Event("pointerUp", "A", NoData)>>

\* C14: end-to-end rectangle scenario: from the one-page empty document with
\* A and B connected, when A's inputs are pointerDown at (10,10), pointerMove
\* to (50,40) and pointerUp with the rectangle tool, the document B receives
\* from the server has on page 1 exactly one shape: a rectangle with x=10,
\* y=10, width=40, height=30 and an id that is not 'temp'.
RectangleEndToEnd ==
    (log.events = RectangleDrag /\ tool["A"] = "rectangle"
        /\ Len(log.received["B"]) = 2)
    => LET doc == Last(log.received["B"])
       IN  /\ pages["B"] = doc
           /\ Len(doc) = 1
           /\ doc[1].id = 1
           /\ doc[1].lines = <<>>
           /\ Len(doc[1].shapes) = 1
           /\ doc[1].shapes[1].type = "rectangle"
           /\ doc[1].shapes[1].x = 10
           /\ doc[1].shapes[1].y = 10
           /\ doc[1].shapes[1].width = 40
           /\ doc[1].shapes[1].height = 30
           /\ doc[1].shapes[1].id # "temp"

\* C14 witness: B has applied the rectangle A dragged, promoted after the
\* clock had advanced.
RectangleReachedB ==
    /\ log.events = RectangleDrag
    /\ tool["A"] = "rectangle"
    /\ ev = Event("apply", "B", [pages |-> currentPages])
    /\ Len(log.received["B"]) = 2
    /\ pages["B"][1].shapes[1].id = FreshId(1, "0.25")

\* nothing is on the way to or from the server
NothingInFlight == \A c \in Clients : c2s[c] = <<>> /\ s2c[c] = <<>>

\* C15: page-add scenario: a request for a new page appends to the client's
\* document exactly one page, with no strokes and no shapes and an id one
\* above every id of the pages before, which are unchanged; and once the
\* server has processed the update and the broadcast is delivered, the
\* requesting client and every other client hold the same document, the
\* Document Store's.
PageAddScenario ==
    [][/\ ev'.op = "addPage" =>
            LET before == pages[ev'.client]
                after == pages'[ev'.client]
            IN  /\ Len(after) = Len(before) + 1
                /\ SubSeq(after, 1, Len(before)) = before
                /\ Last(after).lines = <<>>
                /\ Last(after).shapes = <<>>
                /\ DOMAIN Last(after) = {"id", "lines", "shapes"}
                /\ \A i \in DOMAIN before : Last(after).id > before[i].id
                /\ \E i \in DOMAIN before : Last(after).id = before[i].id + 1
       /\ (log'.events # <<>> /\ Last(log'.events).op = "addPage"
              /\ NothingInFlight')
            => /\ \A c \in Clients : pages'[c] = currentPages'
               /\ Last(currentPages').shapes = <<>>
               /\ Last(currentPages').lines = <<>>
               /\ Len(currentPages') >= 2]_vars

\* C15 witness: A asked for a page after it had begun a stroke, and A and B
\* have both applied the two-page document.
PageAddedEverywhere ==
    /\ Len(log.events) = 2
    /\ log.events[1].op = "pointerDown"
    /\ log.events[2] = Event("addPage", "A", NoData)
    /\ NothingInFlight
    /\ ev.op = "apply"
    /\ Len(pages["B"]) = 2
    /\ pages["B"][2] = [id |-> 2, lines |-> <<>>, shapes |-> <<>>]
    /\ Len(pages["B"][1].lines) = 1
    /\ pages["A"] = pages["B"]

----------------------------------------------------------------------------
(* Properties of the image handle and of uploads, under SpecEdit *)

\* no image shape of the document carries the in-memory handle
NoHandles(doc) ==
    \A i \in DOMAIN doc : \A j \in DOMAIN doc[i].shapes :
        (Has(doc[i].shapes[j], "type") /\ doc[i].shapes[j].type = "image")
            => ~Has(doc[i].shapes[j], "imageObj")

\* the documents that reach client A
ReceivedDocs == {InitialPages} \cup RemoteDocs

\* C21: no document a client emits carries imageObj on an image shape, and
\* a client whose local document is a received document as handleDrawUpdate
\* applied it, and which emits it in a step that does not edit it, transmits
\* a document equal to the one it received.
HandleNeverTransmitted ==
    [][\A c \in Clients :
          /\ \A i \in DOMAIN c2s'[c] : NoHandles(c2s'[c][i].data.pages)
          /\ (/\ Len(c2s'[c]) = Len(c2s[c]) + 1
              /\ pages'[c] = pages[c])
             => \A d \in ReceivedDocs :
                   pages[c] = handleDrawUpdate(pages[c], [pages |-> d])
                      => Last(c2s'[c]).data.pages = d]_vars

\* A applied the document with the image, holds the rebuilt handle, ended a
\* gesture with the select tool and transmitted the document it received.
HandleStrippedOnEmit ==
    /\ ev.op = "pointerUp"
    /\ tool["A"] = "select"
    /\ \E d \in RemoteDocs :
          /\ pages["A"] = pagesWithImages([pages |-> d])
          /\ Has(pages["A"][1].shapes[1], "imageObj")
          /\ c2s["A"] # <<>>
          /\ Last(c2s["A"]).data.pages = d

\* the file is an image that can be read and decoded
ValidFile(file) == IsImageFile(file) /\ file.readable /\ file.decodes

UploadSteps == {"upload", "readerLoad", "readerError", "imageLoad", "imageError"}

\* C22: every step of an upload with no file, with a file that is no image,
\* or with a file that cannot be read or decoded leaves the client's local
\* document unchanged and sends no draw-update; the Document Store is
\* unchanged.
InvalidUploadChangesNothing ==
    [][(ev'.op \in UploadSteps /\ ~ValidFile(ev'.data))
          => /\ pages' = pages
             /\ c2s' = c2s
             /\ currentPages' = currentPages]_vars

\* The image of an upload could not be decoded: the upload is over and
\* nothing was sent.
CorruptImageRejected ==
    /\ ev.op = "imageError"
    /\ ev.data = CorruptImage
    /\ upload["A"] = NoUpload
    /\ c2s["A"] = <<>>

----------------------------------------------------------------------------
(* Properties of a dropped connection, under SpecOffline *)

InputSteps == {"pointerDown", "pointerMove", "pointerUp", "setTool", "addPage"}

\* C23: an update made while the client's connection is down sends no
\* draw-update, queues none and leaves the Document Store unchanged; on
\* reconnection the client is sent the server's current snapshot, and
\* applying it makes its local document equal to the snapshot; the edit is
\* discarded, so with a user who edits only while the connection is down the
\* Document Store never changes.
OfflineUpdateLost ==
    [][/\ (ev'.op \in InputSteps /\ ev'.client \notin connected)
             => c2s' = c2s /\ currentPages' = currentPages
       /\ ev'.op = "connection"
             => Last(s2c'[ev'.client]) = DrawUpdate(currentPages)
       /\ ev'.op = "apply"
             => WithoutHandles(pages'[ev'.client]) = ev'.data.pages
       /\ currentPages' = currentPages]_vars

----------------------------------------------------------------------------
(* Properties of gestures under any interleaving, under SpecClient *)

\* C24: in every reachable state, every page of every client's local
\* document holds at most one shape with id 'temp'.
AtMostOneTemp ==
    \A c \in Clients : \A i \in DOMAIN pages[c] : TempCount(pages[c], i) <= 1

\* no shape of the document has id 'temp'
NoTemp(doc) ==
    \A i \in DOMAIN doc : \A j \in DOMAIN doc[i].shapes : NotTemp(doc[i].shapes[j])

\* C25: after every pointerUp the current page of the local document holds
\* no shape with id 'temp', and no document a client emits holds one.
TempNeverPersisted ==
    [][\A c \in Clients :
          /\ (/\ ev'.op = "pointerUp"
              /\ ev'.client = c
              /\ IndexValid(pages'[c], currentPage'[c]))
             => TempCount(pages'[c], currentPage'[c]) = 0
          /\ \A i \in DOMAIN c2s'[c] : NoTemp(c2s'[c][i].data.pages)]_vars

\* the permanent shapes of every page
PermanentShapes(doc) == [i \in DOMAIN doc |-> Permanent(doc[i])]

\* C26: a remote snapshot applied while the client is Previewing makes the
\* local document equal to the snapshot; a pointerUp that follows it with no
\* step in between adds no permanent shape and emits a document equal to the
\* snapshot.
ApplyDuringPreview ==
    [][\A c \in Clients :
          /\ (/\ ev'.op = "apply"
              /\ ev'.client = c
              /\ isDrawingRef[c]
              /\ tool[c] \in ShapeTools)
             => WithoutHandles(pages'[c]) = ev'.data.pages
          /\ (/\ ev.op = "apply"
              /\ ev.client = c
              /\ ev'.op = "pointerUp"
              /\ ev'.client = c
              /\ isDrawingRef[c]
              /\ tool[c] \in ShapeTools)
             => /\ PermanentShapes(pages'[c]) = PermanentShapes(pages[c])
                /\ Len(c2s'[c]) = Len(c2s[c]) + 1
                /\ Last(c2s'[c]).data.pages = ev.data.pages]_vars

\* the strokes of the documents of other clients
RemoteStrokes ==
    UNION {UNION {{d[i].lines[j] : j \in DOMAIN d[i].lines} : i \in DOMAIN d} :
              d \in RemoteDocs}

\* C27: a pointerMove never changes the points of a stroke created by
\* another client: every stroke of a remote document that the local document
\* holds is the same after the step.
MoveExtendsOwnStroke ==
    [][\A c \in Clients :
          (ev'.op = "pointerMove" /\ ev'.client = c)
             => \A i \in DOMAIN pages[c] : \A j \in DOMAIN pages[c][i].lines :
                   pages[c][i].lines[j] \in RemoteStrokes
                      => /\ i \in DOMAIN pages'[c]
                         /\ j \in DOMAIN pages'[c][i].lines
                         /\ pages'[c][i].lines[j] = pages[c][i].lines[j]]_vars

----------------------------------------------------------------------------
(* Properties of a click with the select tool, under SpecSelect *)

\* C28: a pointerDown followed by a pointerUp with the select tool leaves
\* the client's local document unchanged, and the draw-update it sends does
\* not change the content of the Document Store, also when a broadcast to the
\* client is in flight.
SelectClickKeepsDocuments ==
    [][\A c \in Clients :
          /\ (ev'.op \in {"pointerDown", "pointerUp"} /\ ev'.client = c)
                => pages'[c] = pages[c]
          /\ (ev'.op = "draw-update" /\ ev'.client = c)
                => currentPages' = currentPages]_vars

----------------------------------------------------------------------------
(* Properties of the emission throttle, under SpecDraw *)

\* C29: during Drawing, a pointerMove of a connected client whose current
\* page holds a stroke appends the new point to the stroke in progress, and
\* sends a draw-update, with the document after the step, if and only if the
\* stroke then has a number of coordinates divisible by 16; every other such
\* pointerMove changes the local document and sends nothing.
ThrottledEmission ==
    [][\A c \in Clients :
          (/\ ev'.op = "pointerMove"
           /\ ev'.client = c
           /\ tool[c] \in PenTools
           /\ c \in connected
           /\ IndexValid(pages[c], currentPage[c])
           /\ Len(pages[c][currentPage[c]].lines) > 0)
          => LET before == Len(Last(pages[c][currentPage[c]].lines).points)
                 count == Len(Last(pages'[c][currentPage[c]].lines).points)
             IN  /\ pages'[c] # pages[c]
                 /\ count = before + 2
                 /\ IF count % 16 = 0
                    THEN c2s'[c] = Append(c2s[c],
                                          DrawUpdate(WithoutHandles(pages'[c])))
                    ELSE c2s'[c] = c2s[c]]_vars

\* A's stroke has reached 16 coordinates on a pointerMove, which sent the
\* first draw-update of the gesture.
ThrottleFired ==
    /\ ev.op = "pointerMove"
    /\ tool["A"] \in PenTools
    /\ Len(pages["A"][1].lines) > 0
    /\ Len(Last(pages["A"][1].lines).points) = 16
    /\ Len(c2s["A"]) = 1
    /\ Last(c2s["A"]).data.pages = WithoutHandles(pages["A"])

----------------------------------------------------------------------------
(* Properties of the frame of a local edit, under SpecEdit *)

LocalEdits ==
    {"pointerDown", "pointerMove", "pointerUp", "dragEnd", "transformEnd",
     "clear", "imageLoad"}

\* page i is the current page of client c, by position or by id
IsCurrentPage(c, i) ==
    \/ i = currentPage[c]
    \/ Has(pages[c][i], "id") /\ pages[c][i].id = currentPage[c]

\* C30: every local edit (pointerDown, pointerMove, pointerUp, dragEnd,
\* transformEnd, clear, image insertion) leaves the number and order of the
\* pages, the page ids and the content of every page but the current one
\* unchanged.
LocalEditTouchesCurrentPageOnly ==
    [][\A c \in Clients :
          (ev'.op \in LocalEdits /\ ev'.client = c)
             => /\ Len(pages'[c]) = Len(pages[c])
                /\ \A i \in DOMAIN pages[c] :
                      /\ i \in DOMAIN pages'[c]
                      /\ pages'[c][i].id = pages[c][i].id
                      /\ ~IsCurrentPage(c, i) => pages'[c][i] = pages[c][i]]_vars

----------------------------------------------------------------------------
(* Drag and transform of the shapes of a drawn page, under SpecTransform *)

\* the positions, in page i of the client's document, of the shapes a
\* dragEnd or transformEnd step of event e acts on
ActedOn(doc, e, i) ==
    {j \in DOMAIN doc[i].shapes :
        Has(doc[i].shapes[j], "id") /\ doc[i].shapes[j].id = e.data.id}

\* C31: after any transformEnd on any shape (line, rectangle, circle or
\* image) and for any scale factors, zero and negative ones included, the
\* stored shape has width >= 5 and height >= 5.
TransformKeepsMinimumSize ==
    [][ev'.op = "transformEnd" =>
        \A i \in DOMAIN pages'[ev'.client] :
            IsCurrentPage(ev'.client, i) =>
                \A j \in ActedOn(pages'[ev'.client], ev', i) :
                    LET s == pages'[ev'.client][i].shapes[j]
                    IN  s.width >= MinSide /\ s.height >= MinSide]_vars

\* C32: transformEnd on a line with stored points [x1,y1,x2,y2] and scale
\* factors (sx,sy) stores a two-point segment whose end point relative to its
\* start point is (sx*(x2-x1), sy*(y2-y1)); with sx = sy = 1 the vector from
\* start to end is unchanged, also for a line freshly drawn with the line tool.
TransformScalesLineVector ==
    [][ev'.op = "transformEnd" =>
        \A i \in DOMAIN pages[ev'.client] :
            IsCurrentPage(ev'.client, i) =>
                \A j \in ActedOn(pages[ev'.client], ev', i) :
                    LET old == pages[ev'.client][i].shapes[j]
                        new == pages'[ev'.client][i].shapes[j]
                        node == ev'.data.node
                    IN  old.type = "line" /\ Len(old.points) = 4 =>
                            /\ Len(new.points) = 4
                            /\ new.points[3] - new.points[1] =
                                  node.scaleX * (old.points[3] - old.points[1])
                            /\ new.points[4] - new.points[2] =
                                  node.scaleY * (old.points[4] - old.points[2])]_vars

\* C33: dragEnd changes only the x, y and rotation of the shape of the
\* current page whose id is the dragged node's id: its other fields, every
\* other shape, the order of the shapes, all strokes and the other pages are
\* unchanged, and the resulting document is emitted.
DragEndMovesOnlyDraggedShape ==
    [][ev'.op = "dragEnd" =>
        LET c == ev'.client
        IN  /\ DOMAIN pages'[c] = DOMAIN pages[c]
            /\ \A i \in DOMAIN pages[c] :
                  LET old == pages[c][i]
                      new == pages'[c][i]
                  IN  /\ Without(new, "shapes") = Without(old, "shapes")
                      /\ DOMAIN new.shapes = DOMAIN old.shapes
                      /\ \A j \in DOMAIN old.shapes :
                            IF IsCurrentPage(c, i) /\ j \in ActedOn(pages[c], ev', i)
                            THEN /\ new.shapes[j].x = ev'.data.pos.x
                                 /\ new.shapes[j].y = ev'.data.pos.y
                                 /\ DOMAIN new.shapes[j] =
                                       DOMAIN old.shapes[j] \cup {"x", "y", "rotation"}
                                 /\ \A f \in DOMAIN old.shapes[j] \ {"x", "y", "rotation"} :
                                       new.shapes[j][f] = old.shapes[j][f]
                            ELSE new.shapes[j] = old.shapes[j]
            /\ c2s'[c] = Append(c2s[c], DrawUpdate(WithoutHandles(pages'[c])))]_vars

\* a dragEnd has moved the rectangle, the second of four shapes, away from
\* where it was drawn and the moved document is on its way to the server
RectangleDragged ==
    /\ ev.op = "dragEnd"
    /\ Len(pages["A"][1].shapes) = 4
    /\ pages["A"][1].shapes[2].type = "rectangle"
    /\ pages["A"][1].shapes[2].id = ev.data.id
    /\ pages["A"][1].shapes[2].x = 4
    /\ pages["A"][1].shapes[1] = handleDrawUpdate(InitialPages, [pages |-> DrawnDoc])[1].shapes[1]
    /\ c2s["A"] # <<>>

----------------------------------------------------------------------------
(* The pointer handlers step by step, under SpecClient *)

\* a pointerDown of client c with the pen or eraser on an existing page
PenDown(e) ==
    /\ e.op = "pointerDown"
    /\ tool[e.client] \in PenTools
    /\ IndexValid(pages[e.client], currentPage[e.client])

\* the step appends one stroke to the current page of client c and changes
\* nothing else of the document
AppendsOneStroke(c) ==
    /\ Len(pages'[c]) = Len(pages[c])
    /\ \A i \in DOMAIN pages[c] :
          IF i = currentPage[c]
          THEN /\ Without(pages'[c][i], "lines") = Without(pages[c][i], "lines")
               /\ Len(pages'[c][i].lines) = Len(pages[c][i].lines) + 1
               /\ SubSeq(pages'[c][i].lines, 1, Len(pages[c][i].lines)) =
                     pages[c][i].lines
          ELSE pages'[c][i] = pages[c][i]

\* C34 as stated: a pointerDown with the pen or eraser appends exactly one
\* new stroke at the end of the current page's strokes, whose point sequence
\* is one coordinate pair, the pointer position, and leaves every existing
\* stroke and every shape unchanged.
PenDownAppendsOnePair ==
    [][PenDown(ev') =>
        /\ AppendsOneStroke(ev'.client)
        /\ Last(pages'[ev'.client][currentPage[ev'.client]].lines).points =
              <<ev'.data.x, ev'.data.y>>]_vars

\* C34: a pointerDown with the pen or eraser on an existing current page
\* appends exactly one new stroke of that tool at the end of the page's
\* strokes, whose point sequence is the pointer position twice
\* ([x, y, x, y]), and leaves every existing stroke and every shape unchanged.
PenDownAppendsDoubledPoint ==
    [][PenDown(ev') =>
        /\ AppendsOneStroke(ev'.client)
        /\ LET stroke == Last(pages'[ev'.client][currentPage[ev'.client]].lines)
           IN  /\ stroke.tool = tool[ev'.client]
               /\ stroke.points =
                     <<ev'.data.x, ev'.data.y, ev'.data.x, ev'.data.y>>]_vars

\* the eraser has gone down at (4,1) on a page that already held a stroke
EraserStrokeStarted ==
    /\ ev.op = "pointerDown"
    /\ tool["A"] = "eraser"
    /\ Len(pages["A"][1].lines) >= 2
    /\ Last(pages["A"][1].lines).points = <<4, 1, 4, 1>>
    /\ Last(pages["A"][1].lines).tool = "eraser"

\* a pointerMove of a gesture of client c with a shape tool on an existing
\* page
PreviewMove(e) ==
    /\ e.op = "pointerMove"
    /\ tool[e.client] \in ShapeTools
    /\ IndexValid(pages[e.client], currentPage[e.client])

Smaller(a, b) == IF a <= b THEN a ELSE b

\* C35: during Previewing, after each pointerMove the 'temp' shape depends
\* only on the drag start position (x0,y0) and the pointer position (x1,y1),
\* not on earlier moves: for rectangle and circle it is the bounding box
\* x=min(x0,x1), y=min(y0,y1), width=|x1-x0|, height=|y1-y0|, for line its
\* points are [x0,y0,x1,y1]; the permanent shapes of the page are unchanged
\* and keep their order.
PreviewFollowsPointer ==
    [][PreviewMove(ev') =>
        LET c == ev'.client
            start == startPos[c]
            pos == ev'.data
            old == pages[c][currentPage[c]].shapes
            new == pages'[c][currentPage[c]].shapes
            temps == {j \in DOMAIN new : ~NotTemp(new[j])}
        IN  /\ temps = {Len(new)}
            /\ SelectSeq(new, NotTemp) = SelectSeq(old, NotTemp)
            /\ SubSeq(new, 1, Len(new) - 1) = SelectSeq(old, NotTemp)
            /\ Last(new).type = tool[c]
            /\ IF tool[c] = "line"
               THEN Last(new).points = <<start.x, start.y, pos.x, pos.y>>
               ELSE /\ Last(new).x = Smaller(start.x, pos.x)
                    /\ Last(new).y = Smaller(start.y, pos.y)
                    /\ Last(new).width = Abs(pos.x - start.x)
                    /\ Last(new).height = Abs(pos.y - start.y)]_vars

\* a circle dragged from (4,1) is previewed at (2,5), to the left of and
\* below its start, after an earlier move of the same gesture
CirclePreviewedBackwards ==
    /\ ev.op = "pointerMove"
    /\ tool["A"] = "circle"
    /\ inputs >= 3
    /\ startPos["A"] = [x |-> 4, y |-> 1]
    /\ ev.data = [x |-> 2, y |-> 5]
    /\ pages["A"][1].shapes # <<>>
    /\ Last(pages["A"][1].shapes).id = "temp"
    /\ Last(pages["A"][1].shapes).x = 2
    /\ Last(pages["A"][1].shapes).width = 2
    /\ Last(pages["A"][1].shapes).height = 4

----------------------------------------------------------------------------
(* The add-page listener and messages without pages, under SpecServer *)

\* C36: an add-page message that carries pages replaces the Document Store
\* with its payload and causes exactly one broadcast, named draw-update and
\* carrying the new Document Store, to every connected client, the sender
\* included; the server never sends a message of any other name.
AddPageBroadcastsDrawUpdate ==
    [][/\ (ev'.op = "add-page" /\ HasPages(ev'.data)) =>
              /\ currentPages' = ev'.data.pages
              /\ ev'.client \in connected
              /\ \A d \in Clients :
                    s2c'[d] = IF d \in connected
                              THEN Append(s2c[d],
                                          Msg("draw-update", [pages |-> currentPages']))
                              ELSE s2c[d]
       /\ \A d \in Clients : \A i \in DOMAIN s2c'[d] :
              s2c'[d][i].name = "draw-update"]_vars

\* an add-page of B has put the two-page document in the Document Store and
\* at the end of both clients' inbound queues
AddPageBroadcastSeen ==
    /\ ev = Event("add-page", "B", [pages |-> DocTwoPages])
    /\ connected = Clients
    /\ currentPages = DocTwoPages
    /\ \A d \in Clients :
          s2c[d] # <<>> /\ Last(s2c[d]) = Msg("draw-update", [pages |-> DocTwoPages])

\* C37: a draw-update or add-page message whose payload is a record without
\* a pages field leaves the Document Store unchanged and causes no message to
\* be sent to any client, the sender included.
NoPagesNoEffect ==
    [][(ev'.op \in MessageNames /\ IsObject(ev'.data) /\ ~Has(ev'.data, "pages")) =>
          /\ currentPages' = currentPages
          /\ s2c' = s2c
          /\ serverUp' = serverUp]_vars

\* the server has handled a draw-update without pages while it held the
\* rectangle document and both clients had emptied their inbound queues
NoPagesIgnored ==
    /\ ev.op = "draw-update"
    /\ IsObject(ev.data)
    /\ ~Has(ev.data, "pages")
    /\ connected = Clients
    /\ serverUp
    /\ currentPages = processedPages([pages |-> DocRect], 0)
    /\ \A d \in Clients : s2c[d] = <<>>

----------------------------------------------------------------------------
(* Page ids and page positions, under Spec *)

\* the page at position i of the document has id i
IdIsPosition(doc) == \A i \in DOMAIN doc : Has(doc[i], "id") /\ doc[i].id = i

\* pages[currentPage - 1] and pages.find(p => p.id === currentPage) of
\* client c are the same page, or there is neither
LookupsAgree(c) ==
    LET byId == {i \in DOMAIN pages[c] :
                    Has(pages[c][i], "id") /\ pages[c][i].id = currentPage[c]}
    IN  IF IndexValid(pages[c], currentPage[c])
        THEN /\ byId = {currentPage[c]}
             /\ currentPageData(pages[c], currentPage[c]) = pages[c][currentPage[c]]
        ELSE byId = {}

\* C38: when every document originates from the clients' own operations, in
\* every reachable state the page at position i (counting from 1) of the
\* Document Store and of every client's local document has id i, so the page
\* lookup by index and the page lookup by id select the same page.
PageIdEqualsPosition ==
    /\ IdIsPosition(currentPages)
    /\ \A c \in Clients :
          /\ IdIsPosition(pages[c])
          /\ LookupsAgree(c)
          /\ \A i \in DOMAIN s2c[c] : IdIsPosition(s2c[c][i].data.pages)
          /\ \A i \in DOMAIN c2s[c] : IdIsPosition(c2s[c][i].data.pages)

\* B has added a third page to the two pages it got from A; every document
\* holds the pages 1, 2, 3 in this order, A shows page 2 and B page 3
ThreePagesInOrder ==
    /\ Len(currentPages) = 3
    /\ currentPages[3].id = 3
    /\ pages["A"] = currentPages
    /\ pages["B"] = currentPages
    /\ currentPage["A"] = 2
    /\ currentPage["B"] = 3

----------------------------------------------------------------------------
(* A current page that does not exist, under SpecClient *)

PointerSteps == {"pointerDown", "pointerMove", "pointerUp"}

\* C39: when a client's currentPage does not index an existing page of its
\* local document (after a remote apply of a document with fewer pages),
\* pointerDown, pointerMove and pointerUp leave the local document unchanged
\* and send no draw-update.
PointerIgnoredWithoutPage ==
    [][(/\ ev'.op \in PointerSteps
        /\ ~IndexValid(pages[ev'.client], currentPage[ev'.client])) =>
          /\ pages' = pages
          /\ c2s' = c2s]_vars

\* A added a page, applied a one-page document while showing page 2, and
\* has finished a gesture with the rectangle tool there: the document is the
\* one-page document applied and only the page add was sent
GestureOnMissingPage ==
    /\ ev.op = "pointerUp"
    /\ tool["A"] = "rectangle"
    /\ currentPage["A"] = 2
    /\ Len(pages["A"]) = 1
    /\ pages["A"][1].shapes = <<>>
    /\ Len(c2s["A"]) = 1
    /\ inputs = 2

----------------------------------------------------------------------------
(* What the Normalizer keeps, under SpecNorm *)

\* the pages of the output are those of the input, in this order, but for
\* their shapes; a shapes sequence keeps its length
SamePagesAndStrokes(out, in) ==
    /\ Len(out) = Len(in)
    /\ \A i \in DOMAIN in :
          /\ DOMAIN out[i] = DOMAIN in[i] \cup {"shapes"}
          /\ \A f \in DOMAIN in[i] \ {"shapes"} : out[i][f] = in[i][f]
          /\ ShapesIsArray(in[i]) => Len(out[i].shapes) = Len(in[i].shapes)

\* C40 as stated: normalization changes nothing but missing fields: the
\* output has the same number and order of pages, the same page ids and
\* strokes, the same number and order of shapes in every page whose shapes is
\* a sequence, and every shape field defined in the input keeps its value.
NormalizationKeepsDefinedFields ==
    (DrawUpdateDone(ev) /\ RecordsOnly(ev.data)) =>
        /\ SamePagesAndStrokes(currentPages, ev.data.pages)
        /\ \A i \in DOMAIN ev.data.pages :
              ShapesIsArray(ev.data.pages[i]) =>
                  \A j \in DOMAIN ev.data.pages[i].shapes :
                      \A f \in DOMAIN ev.data.pages[i].shapes[j] :
                          currentPages[i].shapes[j][f] =
                              ev.data.pages[i].shapes[j][f]

\* the fields of a shape the Normalizer replaces although they are defined:
\* a falsy id, and falsy points of a line
FalsyFields(shape) ==
    (IF Has(shape, "id") /\ IdMissing(shape) THEN {"id"} ELSE {})
    \cup (IF /\ Has(shape, "type") /\ shape.type = "line"
             /\ Has(shape, "points") /\ PointsMissing(shape)
          THEN {"points"} ELSE {})

\* C40: normalization changes nothing but missing and falsy fields: the
\* output has the same number and order of pages, the same page ids and
\* strokes, the same number and order of shapes in every page whose shapes is
\* a sequence, and every shape field defined in the input keeps its value,
\* except an id that is the empty string (it becomes a generated id) and
\* falsy points of a line (they become the empty sequence).
NormalizationKeepsTruthyFields ==
    (DrawUpdateDone(ev) /\ RecordsOnly(ev.data)) =>
        /\ SamePagesAndStrokes(currentPages, ev.data.pages)
        /\ \A i \in DOMAIN ev.data.pages :
              ShapesIsArray(ev.data.pages[i]) =>
                  \A j \in DOMAIN ev.data.pages[i].shapes :
                      LET in == ev.data.pages[i].shapes[j]
                          out == currentPages[i].shapes[j]
                      IN  /\ \A f \in DOMAIN in \ FalsyFields(in) : out[f] = in[f]
                          /\ "id" \in FalsyFields(in) => out.id = DateNowId(clock)
                          /\ "points" \in FalsyFields(in) => out.points = <<>>

\* a line that arrived with an empty id was stored with a generated id and
\* every other field as it came
EmptyIdReplacedOnly ==
    /\ DrawUpdateDone(ev)
    /\ ev.data.pages = <<PageOf(<<With(FullShape("line"), "id", "")>>)>>
    /\ currentPages[1].shapes[1].id = DateNowId(clock)
    /\ Without(currentPages[1].shapes[1], "id") = Without(FullShape("line"), "id")

=============================================================================
